---- MODULE Spec2Model ----
(***************************************************************************)
(* Process-Mining-Tool: the GraphBuilder (sessions, nodes, edges, graph),  *)
(* the GraphService/GraphHandler operations on it, and the metrics         *)
(* Analyzer.                                                               *)
(*                                                                         *)
(* Modelling conventions                                                   *)
(*  - a Go map is a function with a finite domain; its iteration order is  *)
(*    unspecified, so every `range` over a map takes an order (a           *)
(*    permutation of the keys) that the actions choose with \E;            *)
(*  - a Go slice filled while ranging over a map (graph.Nodes,             *)
(*    graph.Edges) is a bag: its multiplicities are kept, its order is     *)
(*    the map's unspecified order;                                         *)
(*  - a pointer into nodeMap/edgeMap is the key of the entry;              *)
(*  - a float64 is an exact rational [n, d] (d > 0, lowest terms), with    *)
(*    d = 0 for the IEEE specials: NaN (n = 0), +Inf (n = 1), -Inf         *)
(*    (n = -1); binary rounding error is not modelled;                     *)
(*  - a time.Time is a whole number of seconds since the zero time, so     *)
(*    IsZero is t = 0;                                                     *)
(*  - a timestamp text is [layout, t]: the instant t written in layout;    *)
(*  - the source's Cyrillic string literals are written in Latin           *)
(*    transliteration ("Nachalo protsessa", "Konets", "nachalo",           *)
(*    "konets").                                                           *)
(***************************************************************************)
EXTENDS Integers, Sequences, FiniteSets, Bags, TLC

VARIABLES
    sessionMap,   \* GraphBuilder.sessionMap: case id -> Session
    nodeMap,      \* GraphBuilder.nodeMap: label -> Node
    edgeMap,      \* GraphBuilder.edgeMap: key -> Edge
    graph,        \* GraphBuilder.graph: [Nodes, Edges]
    last,         \* the last operation called, its input and its result
    instances,    \* the session mapping handed to Analyzer.Analyze
    report,       \* the MetricsReport returned last (<<>> when none)
    uploads       \* the BuildGraph call of each upload handler, step by step

vars == <<sessionMap, nodeMap, edgeMap, graph, last, instances, report, uploads>>

----------------------------------------------------------------------------
(* Bounds of the model                                                     *)

MaxRecords == 2        \* records in one log uploaded to a builder in any state
MaxFreshRecords == 3   \* records in one log uploaded to a cleared builder
MaxEvents == 3         \* events held by the builder between two clears
MaxBuilds == 2         \* finalized builds between two clears
MaxSessionLen == 2     \* events of a session handed to Analyze directly
MaxMerged == 3         \* raw occurrences merged by the aggregation loop

----------------------------------------------------------------------------
(* Generic helpers                                                         *)

EmptyMap == <<>>

Range(s) == {s[i] : i \in DOMAIN s}

Perms(S) ==
    {p \in [1..Cardinality(S) -> S] : \A i, j \in DOMAIN p : i # j => p[i] # p[j]}

Abs(x) == IF x < 0 THEN -x ELSE x

RECURSIVE GCD(_, _)
GCD(a, b) == IF b = 0 THEN a ELSE GCD(b, a % b)

----------------------------------------------------------------------------
(* float64 as exact rationals                                              *)

NaN == [n |-> 0, d |-> 0]
PosInf == [n |-> 1, d |-> 0]
NegInf == [n |-> -1, d |-> 0]

Sign(x) == IF x > 0 THEN 1 ELSE IF x < 0 THEN -1 ELSE 0

Frac(n, d) ==
    IF d = 0 THEN [n |-> Sign(n), d |-> 0]
    ELSE LET g == GCD(Abs(n), Abs(d))
             s == IF d < 0 THEN -1 ELSE 1
         IN [n |-> s * (n \div g), d |-> s * (d \div g)]

F(i) == [n |-> i, d |-> 1]

IsNaN(x) == x.d = 0 /\ x.n = 0

\* neither NaN nor an infinity
IsFinite(x) == x.d # 0

FAdd(x, y) ==
    IF IsNaN(x) \/ IsNaN(y) THEN NaN
    ELSE IF x.d = 0 /\ y.d = 0 THEN (IF x.n = y.n THEN x ELSE NaN)
    ELSE IF x.d = 0 THEN x
    ELSE IF y.d = 0 THEN y
    ELSE Frac(x.n * y.d + y.n * x.d, x.d * y.d)

FNeg(x) == [n |-> -x.n, d |-> x.d]

FSub(x, y) == FAdd(x, FNeg(y))

FMul(x, y) ==
    IF IsNaN(x) \/ IsNaN(y) THEN NaN
    ELSE IF x.d = 0 \/ y.d = 0
         THEN (IF x.n = 0 \/ y.n = 0 THEN NaN
               ELSE [n |-> Sign(x.n) * Sign(y.n), d |-> 0])
    ELSE Frac(x.n * y.n, x.d * y.d)

FDiv(x, y) ==
    IF IsNaN(x) \/ IsNaN(y) THEN NaN
    ELSE IF x.d = 0 /\ y.d = 0 THEN NaN
    ELSE IF x.d = 0 THEN [n |-> x.n * (IF y.n < 0 THEN -1 ELSE 1), d |-> 0]
    ELSE IF y.d = 0 THEN F(0)
    ELSE IF y.n = 0 THEN [n |-> Sign(x.n), d |-> 0]
    ELSE Frac(x.n * y.d, x.d * y.n)

\* x > y; false whenever an operand is NaN
FGt(x, y) ==
    IF IsNaN(x) \/ IsNaN(y) THEN FALSE
    ELSE IF x.d = 0 /\ y.d = 0 THEN x.n > y.n
    ELSE IF x.d = 0 THEN x.n > 0
    ELSE IF y.d = 0 THEN y.n < 0
    ELSE x.n * y.d > y.n * x.d

FLt(x, y) == FGt(y, x)

\* math.Round: to the nearest integer, halves away from zero
MathRound(x) ==
    IF x.d = 0 THEN x
    ELSE LET q == (2 * Abs(x.n) + x.d) \div (2 * x.d)
         IN F(Sign(x.n) * q)

\* math.Round(x*10) / 10
Round1(x) == FDiv(MathRound(FMul(x, F(10))), F(10))

----------------------------------------------------------------------------
(* package domain: Graph, Node, Edge, Event, Session, GraphBuilder         *)

EmptyGraph == [Nodes |-> EmptyBag, Edges |-> EmptyBag]

\* NewGraphBuilder: the builder's four containers, all empty
NewGraphBuilder ==
    [graph |-> EmptyGraph, nodeMap |-> EmptyMap, edgeMap |-> EmptyMap,
     sessionMap |-> EmptyMap]

\* an entry of graph.Nodes: a pointer to a nodeMap entry, or to a node that
\* only the list holds (the synthetic start and end nodes)
MapNodePtr(desc) == [inMap |-> TRUE, key |-> desc, obj |-> <<>>]
OwnNodePtr(node) == [inMap |-> FALSE, key |-> node.ID, obj |-> <<node>>]

NoError == [kind |-> "nil", ctx |-> <<>>]
Errorf(kind, ctx) == [kind |-> kind, ctx |-> ctx]

RFC3339 == "2006-01-02T15:04:05Z07:00"

formats ==
    <<RFC3339, "2006-01-02 15:04:05", "02.01.2006 15:04:05", "02.01.2006 15:04",
      "2006-01-02T15:04:05Z07:00">>

\* a timestamp text: the instant t written in the given layout
TimeText(layout, t) == [layout |-> layout, t |-> t]

\* time.Parse(format, timeStr): succeeds iff the text is written in that layout
timeParse(format, timeStr) ==
    IF timeStr.layout = format THEN [err |-> NoError, t |-> timeStr.t]
    ELSE [err |-> Errorf("parsing time", <<timeStr>>), t |-> 0]

RECURSIVE parseTimeFrom(_, _)
parseTimeFrom(i, timeStr) ==
    IF i > Len(formats)
    THEN [err |-> Errorf("time format", <<timeStr>>), t |-> 0]
    ELSE LET r == timeParse(formats[i], timeStr)
         IN IF r.err = NoError THEN r ELSE parseTimeFrom(i + 1, timeStr)

parseTime(timeStr) == parseTimeFrom(1, timeStr)

\* a processEvent that keeps a session ordered by timestamp: the event goes
\* before the first event of its session that is later than it
processEvent_SortByTime(sm, event) ==
    IF event.SessionID \in DOMAIN sm
    THEN LET E == sm[event.SessionID].Events
             later == {i \in DOMAIN E : E[i].Timestamp > event.Timestamp}
             at == IF later = {} THEN Len(E) + 1
                   ELSE CHOOSE i \in later : \A j \in later : i <= j
         IN [sm EXCEPT ![event.SessionID].Events =
                 SubSeq(E, 1, at - 1) \o <<event>> \o SubSeq(E, at, Len(E))]
    ELSE sm @@ (event.SessionID :> [Events |-> <<event>>])

processEvent(sm, event) ==
    IF event.SessionID \in DOMAIN sm
    THEN [sm EXCEPT ![event.SessionID].Events = Append(@, event)]
    ELSE sm @@ (event.SessionID :> [Events |-> <<event>>])

\* the callback BuildGraph hands to ReadAndProcess: the error it returns and
\* the session map it leaves
BuildGraphCallback(sm, record) ==
    IF Len(record) < 3
    THEN [err |-> Errorf("columns", record), sessionMap |-> sm]
    ELSE LET p == parseTime(record[2])
         IN IF p.err # NoError
            THEN [err |-> p.err, sessionMap |-> sm]
            ELSE [err |-> NoError,
                  sessionMap |->
                      processEvent(sm, [ID |-> record[1], SessionID |-> record[1],
                                        Timestamp |-> p.t, Desc |-> record[3]])]

\* infrastructure.CSVReader.ReadAndProcess: hands the records to the callback
\* in file order and stops at the first error, which it returns
RECURSIVE ReadAndProcess(_, _, _)
ReadAndProcess(records, i, sm) ==
    IF i > Len(records) THEN [err |-> NoError, sessionMap |-> sm]
    ELSE LET r == BuildGraphCallback(sm, records[i])
         IN IF r.err # NoError THEN r ELSE ReadAndProcess(records, i + 1, r.sessionMap)

getNode(nm, desc) ==
    IF desc \in DOMAIN nm THEN nm
    ELSE nm @@ (desc :> [ID |-> desc, Label |-> desc, Count |-> 0, Total |-> 0,
                         Color |-> "blue"])

getEdge(em, key, from, to) ==
    IF key \in DOMAIN em THEN em
    ELSE em @@ (key :> [From |-> from, To |-> to, Count |-> 0,
                        AvgDuration |-> F(0), Label |-> <<>>, Style |-> ""])

\* the key of the edge between two activities
EdgeKey(from, to) == from \o "_" \o to

\* fmt.Sprintf("%d\n%.2f sec avg", count, avg): the count and the average
\* in hundredths of a second
EdgeLabel(count, avg) == <<count, MathRound(FMul(avg, F(100))).n>>

RECURSIVE countNodes(_, _, _)
countNodes(nm, events, i) ==
    IF i > Len(events) THEN nm
    ELSE LET n1 == getNode(nm, events[i].Desc)
         IN countNodes([n1 EXCEPT ![events[i].Desc].Count = @ + 1,
                                  ![events[i].Desc].Total = @ + 1],
                       events, i + 1)

\* (edge.AvgDuration*float64(edge.Count-1) + duration) / float64(edge.Count),
\* with edge.Count already incremented
RunningMean(avg, count, duration) ==
    FDiv(FAdd(FMul(avg, F(count - 1)), duration), F(count))

RECURSIVE chainEdges(_, _, _)
chainEdges(em, events, i) ==
    IF i > Len(events) THEN em
    ELSE LET prevEvent == events[i - 1]
             currEvent == events[i]
             duration == F(currEvent.Timestamp - prevEvent.Timestamp)
             key == EdgeKey(prevEvent.Desc, currEvent.Desc)
             e1 == getEdge(em, key, prevEvent.Desc, currEvent.Desc)
             count == e1[key].Count + 1
         IN chainEdges([e1 EXCEPT ![key].Count = count,
                                  ![key].AvgDuration = RunningMean(@, count, duration)],
                       events, i + 1)

\* a processSession that returns early on a session with fewer than two
\* events, before counting its node
processSession_SkipShort(gb, session) ==
    LET events == session.Events
    IN IF Len(events) < 2 THEN gb
       ELSE [gb EXCEPT !.nodeMap = countNodes(@, events, 1),
                       !.edgeMap = chainEdges(@, events, 2)]

processSession(gb, session) ==
    LET events == session.Events
    IN IF Len(events) = 0 THEN gb
       ELSE [gb EXCEPT !.nodeMap = countNodes(@, events, 1),
                       !.edgeMap = IF Len(events) > 1 THEN chainEdges(@, events, 2)
                                   ELSE @]

RECURSIVE processSessions(_, _, _)
processSessions(gb, order, i) ==
    IF i > Len(order) THEN gb
    ELSE processSessions(processSession(gb, gb.sessionMap[order[i]]), order, i + 1)

\* one boundary edge of finalizeGraph: getEdge, Count++, dashed, and appended
\* to graph.Edges when the count became 1
boundaryEdge(gb, key, from, to) ==
    LET e1 == getEdge(gb.edgeMap, key, from, to)
        count == e1[key].Count + 1
    IN [gb EXCEPT !.edgeMap = [e1 EXCEPT ![key].Count = count,
                                         ![key].Style = "dashed"],
                  !.graph.Edges = IF count = 1 THEN @ (+) SetToBag({key}) ELSE @]

RECURSIVE boundaryEdges(_, _, _)
boundaryEdges(gb, order, i) ==
    IF i > Len(order) THEN gb
    ELSE LET events == gb.sessionMap[order[i]].Events
         IN IF Len(events) = 0 THEN boundaryEdges(gb, order, i + 1)
            ELSE LET firstEvent == events[1]
                     lastEvent == events[Len(events)]
                     g1 == boundaryEdge(gb, "start_" \o firstEvent.Desc, "start",
                                        firstEvent.Desc)
                     g2 == boundaryEdge(g1, lastEvent.Desc \o "_end", lastEvent.Desc,
                                        "end")
                 IN boundaryEdges(g2, order, i + 1)

\* finalizeGraph; order1 and order2 are the orders in which its two loops
\* range over sessionMap
finalizeGraph(gb, order1, order2) ==
    LET g1 == processSessions(gb, order1, 1)
        g2 == [g1 EXCEPT !.graph.Nodes =
                   @ (+) SetToBag({MapNodePtr(k) : k \in DOMAIN g1.nodeMap})]
        g3 == [g2 EXCEPT
                   !.edgeMap = [k \in DOMAIN g2.edgeMap |->
                                   [g2.edgeMap[k] EXCEPT !.Label =
                                        EdgeLabel(g2.edgeMap[k].Count,
                                                  g2.edgeMap[k].AvgDuration)]],
                   !.graph.Edges = @ (+) SetToBag(DOMAIN g2.edgeMap)]
        n == Cardinality(DOMAIN gb.sessionMap)
        startNode == [ID |-> "start", Label |-> "Nachalo protsessa", Count |-> n,
                      Total |-> n, Color |-> "green"]
        endNode == [ID |-> "end", Label |-> "Konets", Count |-> n, Total |-> n,
                    Color |-> "red"]
        g4 == [g3 EXCEPT !.graph.Nodes =
                   @ (+) SetToBag({OwnNodePtr(startNode)})
                     (+) SetToBag({OwnNodePtr(endNode)})]
    IN boundaryEdges(g4, order2, 1)

\* a BuildGraph that finalizes the graph whether or not the reader failed
BuildGraph_FinalizeAnyway(gb, records, order1, order2) ==
    LET r == ReadAndProcess(records, 1, gb.sessionMap)
        g1 == [gb EXCEPT !.sessionMap = r.sessionMap]
    IN [err |-> r.err, gb |-> finalizeGraph(g1, order1, order2)]

\* BuildGraph(records): the error returned and the builder it leaves
BuildGraph(gb, records, order1, order2) ==
    LET r == ReadAndProcess(records, 1, gb.sessionMap)
        g1 == [gb EXCEPT !.sessionMap = r.sessionMap]
    IN IF r.err # NoError THEN [err |-> r.err, gb |-> g1]
       ELSE [err |-> NoError, gb |-> finalizeGraph(g1, order1, order2)]

\* a ClearGraph that leaves the session map as it is
ClearGraphOp_KeepSessions(gb) ==
    [gb EXCEPT !.graph = EmptyGraph, !.nodeMap = EmptyMap, !.edgeMap = EmptyMap]

ClearGraphOp(gb) ==
    [gb EXCEPT !.graph = EmptyGraph, !.nodeMap = EmptyMap, !.edgeMap = EmptyMap,
               !.sessionMap = EmptyMap]

----------------------------------------------------------------------------
(* package metrics: the catalog, the detectors and Analyzer.Analyze        *)
(*                                                                         *)
(* A ProcessInstance is [ID, Events]; an Event is [SessionID, Timestamp,   *)
(* Description, Result]. Go's index i of instance.Events is i + 1 here.    *)
(* MetricOccurrence.Details and the texts of MetricDefinition are display  *)
(* strings and are left out. Every detector returns the sequence of        *)
(* [metricType, occurrence] it appends to, in the order it appends.        *)

\* initMetricDefinitions: the threshold of every metric key
initMetricDefinitions ==
    [k \in {"Self-Loop", "Return to Previous Stage", "Ping-Pong", "Return to Start",
            "Rework", "Anomalously Long Stage", "Increasing Stage Duration Trend",
            "Increasing Process Instance Duration Trend", "Manual/Unlogged Stage",
            "High Process Variability", "Low Process Completion Rate",
            "High Error Rate"} |->
        [Name |-> k,
         Threshold |-> IF k \in {"Manual/Unlogged Stage", "High Process Variability"}
                       THEN F(80)
                       ELSE IF k = "Low Process Completion Rate" THEN F(100)
                       ELSE F(0)]]

Raw(metricType, instanceID, value, wasted) ==
    [metricType |-> metricType,
     occurrence |-> [InstanceID |-> instanceID, Value |-> value,
                     WastedDurationSeconds |-> wasted]]

RECURSIVE Concat(_, _)
Concat(ss, i) == IF i > Len(ss) THEN <<>> ELSE ss[i] \o Concat(ss, i + 1)

\* the elements Fn(i) for the i of lo..hi with P(i), by increasing i
ForIdx(lo, hi, P(_), Fn(_)) ==
    IF hi < lo THEN <<>>
    ELSE Concat([k \in 1..(hi - lo + 1) |->
                    IF P(lo + k - 1) THEN <<Fn(lo + k - 1)>> ELSE <<>>], 1)

\* `for _, instance := range instances` in the given order, appending Body
ForInstances(insts, order, Body(_)) ==
    Concat([k \in 1..Len(order) |-> Body(insts[order[k]])], 1)

\* a.Sub(b).Seconds()
SubSeconds(a, b) == F(a.Timestamp - b.Timestamp)

RECURSIVE FSum(_, _)
FSum(data, i) == IF i > Len(data) THEN F(0) ELSE FAdd(data[i], FSum(data, i + 1))

RECURSIVE Insert(_, _)
Insert(sorted, x) ==
    IF sorted = <<>> THEN <<x>>
    ELSE IF FLt(x, sorted[1]) THEN <<x>> \o sorted
    ELSE <<sorted[1]>> \o Insert(Tail(sorted), x)

RECURSIVE SortFloat64s(_)
SortFloat64s(data) ==
    IF data = <<>> THEN <<>> ELSE Insert(SortFloat64s(Tail(data)), data[1])

\* calculateLinearRegression: slope and intercept of data over x = 0..n-1
calculateLinearRegression(data) ==
    LET n == Len(data)
        sumX == F((n * (n - 1)) \div 2)
        sumY == FSum(data, 1)
        sumXY == FSum([i \in 1..n |-> FMul(F(i - 1), data[i])], 1)
        sumX2 == FSum([i \in 1..n |-> F((i - 1) * (i - 1))], 1)
        slope == FDiv(FSub(FMul(F(n), sumXY), FMul(sumX, sumY)),
                      FSub(FMul(F(n), sumX2), FMul(sumX, sumX)))
    IN IF n = 0 THEN [slope |-> F(0), intercept |-> F(0)]
       ELSE [slope |-> slope,
             intercept |-> FDiv(FSub(sumY, FMul(slope, sumX)), F(n))]

\* the Rework occurrence of one label of one instance (none when the label
\* occurs at most once)
\* a Rework scan that measures from each occurrence of the label to the
\* next occurrence of the same label
reworkOf_ToNextRepeat(instance, desc) ==
    LET E == instance.Events
        indices == ForIdx(1, Len(E), LAMBDA i : E[i].Description = desc, LAMBDA i : i)
        wasted == FSum([k \in 1..(Len(indices) - 1) |->
                           SubSeconds(E[indices[k + 1]], E[indices[k]])], 1)
    IN IF Len(indices) > 1
       THEN <<Raw("Rework", instance.ID, F(Len(indices) - 1), wasted)>>
       ELSE <<>>

reworkOf(instance, desc) ==
    LET E == instance.Events
        indices == ForIdx(1, Len(E), LAMBDA i : E[i].Description = desc, LAMBDA i : i)
        wasted == FSum([k \in 1..(Len(indices) - 1) |->
                           IF indices[k] + 1 <= Len(E)
                           THEN SubSeconds(E[indices[k] + 1], E[indices[k]])
                           ELSE F(0)], 1)
    IN IF Len(indices) > 1
       THEN <<Raw("Rework", instance.ID, F(Len(indices) - 1), wasted)>>
       ELSE <<>>

\* a Self-Loop scan that compares each event with the first of its session
selfLoopsOf_FromFirst(instance) ==
    LET E == instance.Events
    IN ForIdx(2, Len(E), LAMBDA i : E[i].Description = E[1].Description,
              LAMBDA i : Raw("Self-Loop", instance.ID, F(1),
                             SubSeconds(E[i], E[i - 1])))

\* lines 354-369: the Self-Loop occurrences of one instance
selfLoopsOf(instance) ==
    LET E == instance.Events
    IN ForIdx(2, Len(E), LAMBDA i : E[i].Description = E[i - 1].Description,
              LAMBDA i : Raw("Self-Loop", instance.ID, F(1),
                             SubSeconds(E[i], E[i - 1])))

\* a Return to Previous Stage scan that measures the last stage only
returnsToPreviousOf_LastStage(instance) ==
    LET E == instance.Events
    IN ForIdx(3, Len(E), LAMBDA i : E[i].Description = E[i - 2].Description,
              LAMBDA i : Raw("Return to Previous Stage", instance.ID, F(1),
                             SubSeconds(E[i], E[i - 1])))

\* lines 372-387: the Return to Previous Stage occurrences of one instance
returnsToPreviousOf(instance) ==
    LET E == instance.Events
    IN ForIdx(3, Len(E), LAMBDA i : E[i].Description = E[i - 2].Description,
              LAMBDA i : Raw("Return to Previous Stage", instance.ID, F(1),
                             SubSeconds(E[i], E[i - 2])))

\* a Ping-Pong scan that measures the whole window, from i-3 to i
pingPongsOf_WholeWindow(instance) ==
    LET E == instance.Events
    IN ForIdx(4, Len(E), LAMBDA i : /\ E[i].Description = E[i - 2].Description
                                    /\ E[i - 1].Description = E[i - 3].Description,
              LAMBDA i : Raw("Ping-Pong", instance.ID, F(1),
                             SubSeconds(E[i], E[i - 3])))

\* lines 390-406: the Ping-Pong occurrences of one instance
pingPongsOf(instance) ==
    LET E == instance.Events
    IN ForIdx(4, Len(E), LAMBDA i : /\ E[i].Description = E[i - 2].Description
                                    /\ E[i - 1].Description = E[i - 3].Description,
              LAMBDA i : Raw("Ping-Pong", instance.ID, F(1),
                             SubSeconds(E[i - 1], E[i - 3])))

\* lines 409-426: the Return to Start occurrences of one instance
returnsToStartOf(instance) ==
    LET E == instance.Events
    IN ForIdx(2, Len(E), LAMBDA i : E[i].Description = E[1].Description,
              LAMBDA i : Raw("Return to Start", instance.ID, F(1), F(0)))

loopingOf(instance, labelOrder) ==
    IF Len(instance.Events) < 2 THEN <<>>
    ELSE selfLoopsOf(instance)
         \o returnsToPreviousOf(instance)
         \o pingPongsOf(instance)
         \o returnsToStartOf(instance)
         \o Concat([k \in 1..Len(labelOrder) |-> reworkOf(instance, labelOrder[k])],
                   1)

\* collectLoopingMetrics; labelOrder is the order in which the labels of
\* eventIndices are ranged over
collectLoopingMetrics(insts, order, labelOrder) ==
    ForInstances(insts, order, LAMBDA instance : loopingOf(instance, labelOrder))

\* the durations one instance adds to `durations` (lines 477-500)
stageDurationsOf(instance) ==
    LET E == instance.Events
    IN IF Len(E) < 2 THEN <<>>
       ELSE ForIdx(1, Len(E) - 1,
                   LAMBDA i : /\ ~(E[i].Timestamp = 0 \/ E[i + 1].Timestamp = 0)
                              /\ ~(E[i + 1].Timestamp < E[i].Timestamp),
                   LAMBDA i : SubSeconds(E[i + 1], E[i]))

\* tan(5 degrees): atan(slope)*180/pi > 5.0 iff slope > tan(5 degrees)
Tan5Deg == Frac(87489, 1000000)

AngleOver5Degrees(slope) == FGt(slope, Tan5Deg)

\* an outlier threshold whose quartile indices are truncated, not rounded
outlierThresholdOf_Truncated(sorted) ==
    LET n == Len(sorted)
        q1 == sorted[((n - 1) \div 4) + 1]
        q3 == sorted[((3 * (n - 1)) \div 4) + 1]
    IN FAdd(q3, FMul(Frac(3, 2), FSub(q3, q1)))

\* lines 524-529: q3 + 1.5*iqr over the sorted durations
outlierThresholdOf(sorted) ==
    LET n == Len(sorted)
        q1 == sorted[MathRound(FMul(F(n - 1), Frac(1, 4))).n + 1]
        q3 == sorted[MathRound(FMul(F(n - 1), Frac(3, 4))).n + 1]
    IN FAdd(q3, FMul(Frac(3, 2), FSub(q3, q1)))

\* collectDurationMetrics; stageOrder, scanOrder and instOrder are the
\* orders of its three loops over the instances
collectDurationMetrics(insts, stageOrder, scanOrder, instOrder) ==
    LET collected == ForInstances(insts, stageOrder, stageDurationsOf)
        n == Len(collected)
        sorted == SortFloat64s(collected)
        outlierThreshold == outlierThresholdOf(sorted)
        anomalies ==
            IF n >= 4
            THEN ForInstances(insts, scanOrder,
                     LAMBDA instance :
                         ForIdx(1, Len(instance.Events) - 1,
                                LAMBDA i : FGt(SubSeconds(instance.Events[i + 1],
                                                          instance.Events[i]),
                                               outlierThreshold),
                                LAMBDA i : Raw("Anomalously Long Stage", instance.ID,
                                               SubSeconds(instance.Events[i + 1],
                                                          instance.Events[i]),
                                               F(0))))
            ELSE <<>>
        \* sort.Float64s sorted `durations` in place when it ran
        durations == IF n >= 4 THEN sorted ELSE collected
        slope == calculateLinearRegression(durations).slope
        stageTrend ==
            IF AngleOver5Degrees(slope)
            THEN <<Raw("Increasing Stage Duration Trend", "ALL", slope, F(0))>>
            ELSE <<>>
        instanceDurations ==
            ForInstances(insts, instOrder,
                LAMBDA instance :
                    IF Len(instance.Events) > 1
                    THEN <<SubSeconds(instance.Events[Len(instance.Events)],
                                      instance.Events[1])>>
                    ELSE <<>>)
        instanceSlope == calculateLinearRegression(instanceDurations).slope
        instanceTrend ==
            IF Len(instanceDurations) > 1 /\ FGt(instanceSlope, F(0))
            THEN <<Raw("Increasing Process Instance Duration Trend", "ALL",
                       instanceSlope, F(0))>>
            ELSE <<>>
    IN IF n = 0 THEN <<>> ELSE anomalies \o stageTrend \o instanceTrend

\* a Manual/Unlogged Stage scan without the test of the total duration
manualStagesOf_AnyTotal(instance) ==
    LET E == instance.Events
        totalInstanceDuration == SubSeconds(E[Len(E)], E[1])
        percentage(i) ==
            FMul(FDiv(SubSeconds(E[i + 1], E[i]), totalInstanceDuration), F(100))
    IN IF Len(E) < 2 THEN <<>>
       ELSE ForIdx(1, Len(E) - 1,
                   LAMBDA i : FGt(percentage(i), F(80)),
                   LAMBDA i : Raw("Manual/Unlogged Stage", instance.ID,
                                  Round1(percentage(i)), F(0)))

manualStagesOf(instance) ==
    LET E == instance.Events
        totalInstanceDuration == SubSeconds(E[Len(E)], E[1])
        percentage(i) ==
            FMul(FDiv(SubSeconds(E[i + 1], E[i]), totalInstanceDuration), F(100))
    IN IF Len(E) < 2 THEN <<>>
       ELSE ForIdx(1, Len(E) - 1,
                   LAMBDA i : /\ FGt(totalInstanceDuration, F(0))
                              /\ FGt(percentage(i), F(80)),
                   LAMBDA i : Raw("Manual/Unlogged Stage", instance.ID,
                                  Round1(percentage(i)), F(0)))

collectManualStageMetrics(insts, order) == ForInstances(insts, order, manualStagesOf)

\* the path string of collectComplexityMetrics: the labels, each followed by
\* an arrow, less the last arrow ("->" stands for the source's arrow rune)
RECURSIVE arrowPath(_, _)
arrowPath(E, i) ==
    IF i > Len(E) THEN ""
    ELSE IF i = Len(E) THEN E[i].Description
    ELSE E[i].Description \o "->" \o arrowPath(E, i + 1)

\* a collectComplexityMetrics that flags a variability of 80 percent too
collectComplexityMetrics_From80(insts) ==
    LET uniquePaths == {arrowPath(insts[id].Events, 1) : id \in DOMAIN insts}
        totalInstances == Cardinality(DOMAIN insts)
        variability ==
            FMul(FDiv(F(Cardinality(uniquePaths)), F(totalInstances)), F(100))
    IN IF totalInstances = 0 THEN <<>>
       ELSE IF ~FLt(variability, F(80))
       THEN <<Raw("High Process Variability", "ALL", Round1(variability), F(0))>>
       ELSE <<>>

collectComplexityMetrics(insts) ==
    LET uniquePaths == {arrowPath(insts[id].Events, 1) : id \in DOMAIN insts}
        totalInstances == Cardinality(DOMAIN insts)
        variability ==
            FMul(FDiv(F(Cardinality(uniquePaths)), F(totalInstances)), F(100))
    IN IF totalInstances = 0 THEN <<>>
       ELSE IF FGt(variability, F(80))
       THEN <<Raw("High Process Variability", "ALL", Round1(variability), F(0))>>
       ELSE <<>>

\* strings.ToLower on the letters the logs use
UpperCase == "ABCDEFGHIJKLMNOPQRSTUVWXYZ"

LowerCase == "abcdefghijklmnopqrstuvwxyz"

LowerOf(c) ==
    IF \E i \in 1..Len(UpperCase) : SubSeq(UpperCase, i, i) = c
    THEN LET i == CHOOSE j \in 1..Len(UpperCase) : SubSeq(UpperCase, j, j) = c
         IN SubSeq(LowerCase, i, i)
    ELSE c

RECURSIVE ToLower(_)
ToLower(str) ==
    IF Len(str) = 0 THEN ""
    ELSE LowerOf(SubSeq(str, 1, 1)) \o ToLower(SubSeq(str, 2, Len(str)))

\* strings.Contains
Contains(str, substr) ==
    \E i \in 1..(Len(str) - Len(substr) + 1) :
        SubSeq(str, i, i + Len(substr) - 1) = substr

\* a collectCompletionMetrics that takes the sessions of two or more
\* events as the total
collectCompletionMetrics_OfLongOnes(insts) ==
    LET totalInstances == Cardinality({id \in DOMAIN insts : Len(insts[id].Events) > 1})
        completed ==
            {id \in DOMAIN insts :
                LET E == insts[id].Events
                IN /\ Len(E) > 1
                   /\ Contains(ToLower(E[1].Description), "nachalo")
                   /\ Contains(ToLower(E[Len(E)].Description), "konets")}
        completionRate ==
            FMul(FDiv(F(Cardinality(completed)), F(totalInstances)), F(100))
    IN IF totalInstances = 0 THEN <<>>
       ELSE IF FLt(completionRate, F(100))
       THEN <<Raw("Low Process Completion Rate", "ALL", Round1(completionRate), F(0))>>
       ELSE <<>>

collectCompletionMetrics(insts) ==
    LET totalInstances == Cardinality(DOMAIN insts)
        completed ==
            {id \in DOMAIN insts :
                LET E == insts[id].Events
                IN /\ Len(E) > 1
                   /\ Contains(ToLower(E[1].Description), "nachalo")
                   /\ Contains(ToLower(E[Len(E)].Description), "konets")}
        completionRate ==
            FMul(FDiv(F(Cardinality(completed)), F(totalInstances)), F(100))
    IN IF totalInstances = 0 THEN <<>>
       ELSE IF FLt(completionRate, F(100))
       THEN <<Raw("Low Process Completion Rate", "ALL", Round1(completionRate), F(0))>>
       ELSE <<>>

collectErrorMetrics(insts) ==
    LET hasError(id) == \E i \in DOMAIN insts[id].Events :
                            insts[id].Events[i].Result = "error"
        errorInstances == Cardinality({id \in DOMAIN insts : hasError(id)})
        successInstances == Cardinality({id \in DOMAIN insts : ~hasError(id)})
    IN IF errorInstances > successInstances
       THEN <<Raw("High Error Rate", "ALL", F(errorInstances), F(0))>>
       ELSE <<>>

\* lines 306-314: one InefficiencyMetric per definition, with zero aggregates
InitialMetric(def) ==
    [Definition |-> def, Occurrences |-> <<>>, TotalValue |-> F(0),
     TotalWastedDuration |-> F(0), Count |-> 0, Exceeded |-> FALSE]

\* a merge that counts only the occurrences over the threshold
MergeOccurrence_CountExceeding(metric, occurrence) ==
    LET over == FGt(occurrence.Value, metric.Definition.Threshold)
    IN [metric EXCEPT
           !.Occurrences = Append(@, occurrence),
           !.TotalValue = FAdd(@, occurrence.Value),
           !.TotalWastedDuration = FAdd(@, occurrence.WastedDurationSeconds),
           !.Count = IF over THEN @ + 1 ELSE @,
           !.Exceeded = IF over THEN TRUE ELSE @]

\* a merge whose flag follows the occurrence merged last
MergeOccurrence_LastDecides(metric, occurrence) ==
    [metric EXCEPT
        !.Occurrences = Append(@, occurrence),
        !.TotalValue = FAdd(@, occurrence.Value),
        !.TotalWastedDuration = FAdd(@, occurrence.WastedDurationSeconds),
        !.Count = @ + 1,
        !.Exceeded = FGt(occurrence.Value, metric.Definition.Threshold)]

\* lines 318-326: one raw occurrence merged into its metric
MergeOccurrence(metric, occurrence) ==
    [metric EXCEPT
        !.Occurrences = Append(@, occurrence),
        !.TotalValue = FAdd(@, occurrence.Value),
        !.TotalWastedDuration = FAdd(@, occurrence.WastedDurationSeconds),
        !.Count = @ + 1,
        !.Exceeded = IF FGt(occurrence.Value, metric.Definition.Threshold)
                     THEN TRUE ELSE @]

RECURSIVE Aggregate(_, _, _)
Aggregate(aggregated, rawMetrics, i) ==
    IF i > Len(rawMetrics) THEN aggregated
    ELSE LET raw == rawMetrics[i]
         IN Aggregate(IF raw.metricType \in DOMAIN aggregated
                      THEN [aggregated EXCEPT ![raw.metricType] =
                                MergeOccurrence(@, raw.occurrence)]
                      ELSE aggregated,
                      rawMetrics, i + 1)

\* lines 330-333: the final rounding of total_value
FinalMetric(metric) == [metric EXCEPT !.TotalValue = Round1(@)]

\* a final loop that leaves out the metrics without occurrences
ReportMetrics_SkipEmpty(aggregated) ==
    [key \in {k \in DOMAIN aggregated : aggregated[k].Count > 0} |->
        FinalMetric(aggregated[key])]

\* lines 329-333: every aggregated metric, rounded, goes into report.Metrics
ReportMetrics(aggregated) ==
    [key \in DOMAIN aggregated |-> FinalMetric(aggregated[key])]

RECURSIVE SumEvents(_, _)
SumEvents(insts, ids) ==
    IF ids = {} THEN 0
    ELSE LET id == CHOOSE x \in ids : TRUE
         IN Len(insts[id].Events) + SumEvents(insts, ids \ {id})

\* lines 209-236: mean and median of the durations of the instances with
\* more than one event
ProcessDurationStats(insts) ==
    LET ids == {id \in DOMAIN insts : Len(insts[id].Events) > 1}
        order == CHOOSE p \in Perms(ids) : TRUE
        processDurations ==
            SortFloat64s([k \in 1..Len(order) |->
                             SubSeconds(insts[order[k]].Events[Len(insts[order[k]].Events)],
                                        insts[order[k]].Events[1])])
        n == Len(processDurations)
        mid == n \div 2
    IN IF n > 0
       THEN [Average |-> FDiv(FSum(processDurations, 1), F(n)),
             Median |-> IF n % 2 = 0
                        THEN FDiv(FAdd(processDurations[mid], processDurations[mid + 1]),
                                  F(2))
                        ELSE processDurations[mid + 1]]
       ELSE [Average |-> F(0), Median |-> F(0)]

\* Analyzer.Analyze; ord gives the orders in which the detectors range over
\* the instances (stage, scan, inst) and over the labels of one instance
\* (labels). report.Metrics, ranged out of a map in unspecified order, is the
\* function from metric key to InefficiencyMetric.
\* the entries of a list, each moved before the entries of a smaller count
\* that precede it: sort.Slice with Count > Count, ties as they came
RECURSIVE InsertByCount(_, _)
InsertByCount(sorted, x) ==
    IF sorted = <<>> THEN <<x>>
    ELSE IF x.Count > sorted[Len(sorted)].Count
    THEN InsertByCount(SubSeq(sorted, 1, Len(sorted) - 1), x)
             \o <<sorted[Len(sorted)]>>
    ELSE sorted \o <<x>>

RECURSIVE SortByCount(_, _)
SortByCount(entries, i) ==
    IF i = 0 THEN <<>>
    ELSE InsertByCount(SortByCount(entries, i - 1), entries[i])

\* sorted[:5] when there are more than five entries
TopFive(sorted) == IF Len(sorted) > 5 THEN SubSeq(sorted, 1, 5) ELSE sorted

\* the members of a sequence, each once, in the order of first appearance
RECURSIVE Distinct(_, _)
Distinct(seq, i) ==
    IF i = 0 THEN <<>>
    ELSE LET before == Distinct(seq, i - 1)
         IN IF seq[i] \in Range(before) THEN before ELSE before \o <<seq[i]>>

\* lines 237-258: the activities by falling count; labelOrder is the order
\* of the range over activityCounts
MostFrequentActivities(insts, labelOrder) ==
    TopFive(SortByCount(
        [k \in 1..Len(labelOrder) |->
            [Activity |-> labelOrder[k],
             Count |-> Cardinality(UNION {{<<id, i>> : i \in
                           {j \in 1..Len(insts[id].Events) :
                               insts[id].Events[j].Description = labelOrder[k]}} :
                           id \in DOMAIN insts})]],
        Len(labelOrder)))

\* fmt.Sprintf("%v", path) of a []string: the labels between brackets, one
\* space between two labels
RECURSIVE SpaceJoined(_, _)
SpaceJoined(path, i) ==
    IF i > Len(path) THEN ""
    ELSE (IF i > 1 THEN " " ELSE "") \o path[i] \o SpaceJoined(path, i + 1)

pathKey(path) == "[" \o SpaceJoined(path, 1) \o "]"

\* lines 260-287: the paths by falling count; countOrder is the order of
\* the range over instances, keyOrder gives the order of the range over
\* pathCounts (the keys as they first appear along it)
MostFrequentPaths(insts, countOrder, keyOrder) ==
    LET walked(order) ==
            ForInstances(insts, order,
                LAMBDA instance :
                    IF Len(instance.Events) > 0
                    THEN <<[key |-> pathKey([i \in 1..Len(instance.Events) |->
                                                instance.Events[i].Description]),
                            path |-> [i \in 1..Len(instance.Events) |->
                                         instance.Events[i].Description]]>>
                    ELSE <<>>)
        counted == walked(countOrder)
        keys == Distinct([k \in 1..Len(walked(keyOrder)) |-> walked(keyOrder)[k].key],
                         Len(walked(keyOrder)))
        pathCounts(key) == Cardinality({k \in 1..Len(counted) : counted[k].key = key})
        \* pathMap[pathKey] = path: the path written last stays
        pathMap(key) ==
            counted[CHOOSE k \in 1..Len(counted) :
                        /\ counted[k].key = key
                        /\ \A j \in (k + 1)..Len(counted) : counted[j].key # key].path
    IN TopFive(SortByCount([k \in 1..Len(keys) |->
                               [Path |-> pathMap(keys[k]), Count |-> pathCounts(keys[k])]],
                           Len(keys)))

Analyze(insts, ord) ==
    LET stats == ProcessDurationStats(insts)
        rawMetrics ==
            collectLoopingMetrics(insts, ord.scan, ord.labels)
            \o collectDurationMetrics(insts, ord.stage, ord.scan, ord.inst)
            \o collectManualStageMetrics(insts, ord.scan)
            \o collectComplexityMetrics(insts)
            \o collectCompletionMetrics(insts)
            \o collectErrorMetrics(insts)
        definitions == initMetricDefinitions
        aggregated ==
            Aggregate([key \in DOMAIN definitions |-> InitialMetric(definitions[key])],
                      rawMetrics, 1)
    IN [TotalProcessInstances |-> Cardinality(DOMAIN insts),
        TotalEvents |-> SumEvents(insts, DOMAIN insts),
        AverageProcessDuration |-> stats.Average,
        MedianProcessDuration |-> stats.Median,
        MostFrequentActivities |-> MostFrequentActivities(insts, ord.labels),
        MostFrequentPaths |-> MostFrequentPaths(insts, ord.scan, ord.inst),
        Metrics |-> ReportMetrics(aggregated)]

----------------------------------------------------------------------------
(* GraphBuilder.GetProcessInstances and package service                    *)

\* the ProcessInstance GetProcessInstances makes of one session: ID and the
\* events' Result are left at their zero value
ProcessInstanceOf(session) ==
    [ID |-> "",
     Events |-> [i \in 1..Len(session.Events) |->
                    [SessionID |-> session.Events[i].SessionID,
                     Timestamp |-> session.Events[i].Timestamp,
                     Description |-> session.Events[i].Desc,
                     Result |-> ""]]]

\* GetProcessInstances: the slice, in the order sessionMap was ranged over
GetProcessInstances(gb, order) ==
    [k \in 1..Len(order) |-> ProcessInstanceOf(gb.sessionMap[order[k]])]

\* GraphService.GetMetricsReport, lines 196-216: the slice turned into the
\* map keyed by ProcessInstance.ID
RECURSIVE processInstancesMap(_, _, _)
processInstancesMap(m, slice, i) ==
    IF i > Len(slice) THEN m
    ELSE LET domainPI == slice[i]
             pi == [ID |-> domainPI.ID, Events |-> domainPI.Events]
         IN processInstancesMap(
                IF domainPI.ID \in DOMAIN m THEN [m EXCEPT ![domainPI.ID] = pi]
                ELSE m @@ (domainPI.ID :> pi),
                slice, i + 1)

\* the orders Analyze may range over its instances and their labels in
Orders(insts) ==
    [stage : Perms(DOMAIN insts), scan : Perms(DOMAIN insts),
     inst : Perms(DOMAIN insts),
     labels : Perms(UNION {{insts[id].Events[i].Description :
                                i \in 1..Len(insts[id].Events)} : id \in DOMAIN insts})]

----------------------------------------------------------------------------
(* The logs the CSV reader delivers                                        *)

Cases == {"c1", "c2"}

T1 == TimeText(RFC3339, 1)
T2 == TimeText("2006-01-02 15:04:05", 2)

GoodTimes == {T1, T2}

BadTime == TimeText("Jan _2 15:04:05 2006", 1)

\* a record with an unparsable timestamp, a record with two fields
Malformed == {<<"c1", BadTime, "A">>, <<"c1", T1>>}

\* the records of the logs uploaded over a builder's whole life
\* a record whose fourth field, the outcome, is "error"
ErrorRecords == {<<"c1", T1, "A", "error">>}

Records ==
    {<<"c1", T1, "A">>, <<"c1", T2, "B">>, <<"c2", T2, "A">>, <<"c2", T1, "B">>}
        \cup Malformed \cup ErrorRecords

\* the records of the logs uploaded to a cleared builder: two cases, labels
\* with and without the "_" of the edge keys, and the id of the start node

FreshRecords ==
    {<<c, t, "A">> : c \in Cases, t \in GoodTimes}
        \cup {<<"c1", t, l>> : t \in GoodTimes, l \in {"B", "A_A"}}
        \cup {<<"c1", T1, "start">>, <<"c2", T2, "B">>}

----------------------------------------------------------------------------
(* State                                                                   *)

gbState ==
    [graph |-> graph, nodeMap |-> nodeMap, edgeMap |-> edgeMap,
     sessionMap |-> sessionMap]

NoReport == <<>>

\* `last`: the operation called last (op); for a build, its log (records),
\* the error it returned (err) and whether it started on a cleared builder
\* (cleared); what the builder went through last (built): nothing ("new"),
\* a clear ("cleared"), a build that succeeded ("ok") or one that failed
\* ("failed"); and whether a clear has discarded events so far (wiped)
NewCall ==
    [op |-> "new", records |-> <<>>, err |-> NoError, cleared |-> FALSE,
     built |-> "new", wiped |-> FALSE]

Called(op) == [NewCall EXCEPT !.op = op, !.built = last.built, !.wiped = last.wiped]

IsCleared(gb) == gb = NewGraphBuilder

RECURSIVE SumLen(_, _)
SumLen(sm, keys) ==
    IF keys = {} THEN 0
    ELSE LET k == CHOOSE x \in keys : TRUE
         IN Len(sm[k].Events) + SumLen(sm, keys \ {k})

HeldEvents(sm) == SumLen(sm, DOMAIN sm)

\* the finalized builds since the last clear: each appended one start node
Finalized(g) ==
    BagCardinality([p \in {q \in BagToSet(g.Nodes) : ~q.inMap /\ q.key = "start"}
                       |-> g.Nodes[p]])

\* the goroutines net/http runs GraphHandler.UploadFile in
Handlers == {"h1", "h2"}

\* `uploads`: for each handler the log of its BuildGraph call (records) and
\* the record the reader hands to the callback next (next); next is 0
\* before BuildGraph is entered and -1 once it has returned
NoUploads == [h \in Handlers |-> [records |-> <<>>, next |-> 0]]

Init ==
    /\ uploads = NoUploads
    /\ sessionMap = NewGraphBuilder.sessionMap
    /\ nodeMap = NewGraphBuilder.nodeMap
    /\ edgeMap = NewGraphBuilder.edgeMap
    /\ graph = NewGraphBuilder.graph
    /\ last = NewCall
    /\ instances = EmptyMap
    /\ report = NoReport

SetBuilder(gb) ==
    /\ sessionMap' = gb.sessionMap
    /\ nodeMap' = gb.nodeMap
    /\ edgeMap' = gb.edgeMap
    /\ graph' = gb.graph

\* GraphHandler.UploadFile -> GraphService.BuildGraphFromCSV -> BuildGraph
Upload(records) ==
    LET sm == ReadAndProcess(records, 1, sessionMap).sessionMap
    IN \E order1, order2 \in Perms(DOMAIN sm) :
           \E r \in {BuildGraph(gbState, records, order1, order2)} :
              /\ SetBuilder(r.gb)
              /\ last' = [Called("build") EXCEPT
                              !.records = records,
                              !.err = r.err,
                              !.cleared = IsCleared(gbState),
                              !.built = IF r.err = NoError THEN "ok" ELSE "failed"]
              /\ report' = NoReport
              /\ instances' = EmptyMap
              /\ UNCHANGED uploads

UploadFile ==
    \E n \in 0..MaxRecords :
        /\ HeldEvents(sessionMap) + n <= MaxEvents
        /\ Finalized(graph) < MaxBuilds
        /\ \E records \in [1..n -> Records] : Upload(records)

\* UploadFile right after a clear (or on the new builder)
UploadFresh ==
    /\ IsCleared(gbState)
    /\ \E n \in 0..MaxFreshRecords :
           \E records \in [1..n -> FreshRecords] : Upload(records)

\* GraphHandler.ClearGraph -> GraphService.ClearGraph -> GraphBuilder.ClearGraph
ClearGraph ==
    /\ SetBuilder(ClearGraphOp(gbState))
    /\ last' = [Called("clear") EXCEPT
                    !.built = "cleared",
                    !.wiped = @ \/ HeldEvents(sessionMap) > 0]
    /\ report' = NoReport
    /\ instances' = EmptyMap
    /\ UNCHANGED uploads

\* GraphHandler.ServeGraphData: relabels every edge of the graph it serves
ServeGraphData ==
    /\ edgeMap' = [k \in DOMAIN edgeMap |->
                      IF k \in BagToSet(graph.Edges)
                      THEN [edgeMap[k] EXCEPT !.Label =
                                EdgeLabel(edgeMap[k].Count, edgeMap[k].AvgDuration)]
                      ELSE edgeMap[k]]
    /\ last' = Called("graph")
    /\ report' = NoReport
    /\ instances' = EmptyMap
    /\ UNCHANGED <<sessionMap, nodeMap, graph, uploads>>

\* GraphHandler.GetMetricsReport -> GraphService.GetMetricsReport
GetMetricsReport ==
    \E order \in Perms(DOMAIN sessionMap) :
        \E insts \in {processInstancesMap(EmptyMap,
                                          GetProcessInstances(gbState, order), 1)} :
            \E ord \in Orders(insts) :
                /\ instances' = insts
                /\ report' = Analyze(insts, ord)
                /\ last' = Called("metrics")
                /\ UNCHANGED <<sessionMap, nodeMap, edgeMap, graph, uploads>>

Next ==
    \/ UploadFile
    \/ ClearGraph
    \/ ServeGraphData
    \/ GetMetricsReport

Spec == Init /\ [][Next]_vars

----------------------------------------------------------------------------
(* Analyzer.Analyze on every session mapping of a bounded family           *)

AnalyzeLabels == {"A", "B"}

\* the timestamps of a session's events: evenly spaced, all equal, one long
\* stage, decreasing, and with a zero first timestamp
Timelines ==
    {<<1, 2, 3, 4>>, <<1, 1, 1, 1>>, <<1, 2, 12, 13>>, <<4, 3, 2, 1>>, <<0, 5, 6, 7>>}

SessionsOfLen(n) ==
    {[i \in 1..n |-> [Timestamp |-> tl[i], Description |-> ls[i]]] :
        tl \in Timelines, ls \in [1..n -> AnalyzeLabels]}

\* two long sessions: six stage durations that grow, four that shrink
LongSessions ==
    {[i \in 1..7 |-> [Timestamp |-> <<1, 2, 4, 7, 11, 16, 30>>[i],
                      Description |-> <<"A", "B", "A", "B", "A", "A", "B">>[i]]],
     [i \in 1..5 |-> [Timestamp |-> <<1, 10, 15, 18, 19>>[i],
                      Description |-> <<"A", "B", "B", "A", "B">>[i]]]}

AnalyzeSessions == (UNION {SessionsOfLen(n) : n \in 1..MaxSessionLen}) \cup LongSessions

InstanceOf(id, session) ==
    [ID |-> id,
     Events |-> [i \in 1..Len(session) |->
                    [SessionID |-> id, Timestamp |-> session[i].Timestamp,
                     Description |-> session[i].Description, Result |-> ""]]]

\* sessions of three and of four events, for the detectors that look two
\* and three events back
PatternSessions == SessionsOfLen(3) \cup SessionsOfLen(4)

CaseSeq == <<"c1", "c2", "c3", "c4", "c5", "c6">>

\* six distinct label paths
Paths == <<<<"A">>, <<"B">>, <<"A", "B">>, <<"B", "A">>, <<"A", "A">>, <<"B", "B">>>>

PathSession(path) ==
    [i \in 1..Len(path) |-> [Timestamp |-> i, Description |-> path[i]]]

\* t sessions with u distinct paths: session i follows path i, the sessions
\* after the u-th follow path u
VariabilityMap(t, u) ==
    [id \in {CaseSeq[i] : i \in 1..t} |->
        LET i == CHOOSE j \in 1..t : CaseSeq[j] = id
        IN InstanceOf(id, PathSession(Paths[IF i < u THEN i ELSE u]))]

VariabilityMaps == {VariabilityMap(t, u) : t \in 5..6, u \in 1..6}

\* sessions that begin and end with the markers of a completed process,
\* in either case and inside longer labels, and sessions that do not: a
\* single event, the markers the wrong way round, no end marker
CompletionPaths ==
    <<<<"Nachalo", "Konets">>, <<"A NACHALO", "B", "KONETS B">>,
      <<"Nachalo Konets">>, <<"Konets", "Nachalo">>, <<"Nachalo", "A">>>>

CompletionMaps ==
    {("c1" :> InstanceOf("c1", PathSession(CompletionPaths[i]))) :
         i \in DOMAIN CompletionPaths}
        \cup {("c1" :> InstanceOf("c1", PathSession(CompletionPaths[i])))
                 @@ ("c2" :> InstanceOf("c2", PathSession(CompletionPaths[j]))) :
                 i \in DOMAIN CompletionPaths, j \in DOMAIN CompletionPaths}
        \cup {[id \in {"c1", "c2", "c3"} |->
                  InstanceOf(id, PathSession(CompletionPaths[
                      IF id = "c1" THEN 1 ELSE IF id = "c2" THEN i ELSE 3]))] :
                 i \in {2, 4}}

InstanceMaps ==
    {EmptyMap}
        \cup {("c1" :> InstanceOf("c1", s)) : s \in AnalyzeSessions \cup PatternSessions}
        \cup {("c1" :> InstanceOf("c1", s1)) @@ ("c2" :> InstanceOf("c2", s2)) :
                 s1 \in AnalyzeSessions, s2 \in AnalyzeSessions}
        \cup {("c1" :> InstanceOf("c1", s1)) @@ ("c2" :> InstanceOf("c2", s2)) :
                 s1 \in SessionsOfLen(3), s2 \in SessionsOfLen(2)}
        \cup VariabilityMaps
        \cup CompletionMaps

\* the orders AnalyzeCall ranges in: every order for up to two instances, the
\* order of the case ids and its reverse for more
AnalyzeOrders(insts) ==
    IF Cardinality(DOMAIN insts) <= 2 THEN Orders(insts)
    ELSE LET n == Cardinality(DOMAIN insts)
             asc == [i \in 1..n |-> CaseSeq[i]]
             desc == [i \in 1..n |-> CaseSeq[n + 1 - i]]
         IN [stage : {asc, desc}, scan : {asc, desc}, inst : {asc, desc},
             labels : Perms(UNION {{insts[id].Events[i].Description :
                                        i \in 1..Len(insts[id].Events)} :
                                    id \in DOMAIN insts})]

InitAnalyze ==
    /\ uploads = NoUploads
    /\ sessionMap = NewGraphBuilder.sessionMap
    /\ nodeMap = NewGraphBuilder.nodeMap
    /\ edgeMap = NewGraphBuilder.edgeMap
    /\ graph = NewGraphBuilder.graph
    /\ last = NewCall
    /\ instances \in InstanceMaps
    /\ report = NoReport

\* analyzer.Analyze(instances)
AnalyzeCall ==
    /\ report = NoReport
    /\ \E ord \in AnalyzeOrders(instances) : report' = Analyze(instances, ord)
    /\ last' = Called("analyze")
    /\ UNCHANGED <<sessionMap, nodeMap, edgeMap, graph, instances, uploads>>

NextAnalyze == AnalyzeCall

SpecAnalyze == InitAnalyze /\ [][NextAnalyze]_vars

NextFresh ==
    \/ UploadFresh
    \/ ClearGraph
    \/ ServeGraphData

SpecFresh == Init /\ [][NextFresh]_vars

----------------------------------------------------------------------------
(* The aggregation loop of Analyze, one raw occurrence at a time, over any *)
(* list of raw occurrences; report.Metrics is the map `aggregated`         *)

\* raw occurrences of a metric with threshold 0, of one with threshold 80,
\* and of a type the catalog does not hold; values under, at and over
RawOccurrences ==
    {Raw(t, "c1", v, F(0)) :
        t \in {"Self-Loop", "Manual/Unlogged Stage", "Unknown"},
        v \in {F(0), F(1), F(80), Frac(909, 10)}}

InitMerge ==
    /\ uploads = NoUploads
    /\ sessionMap = NewGraphBuilder.sessionMap
    /\ nodeMap = NewGraphBuilder.nodeMap
    /\ edgeMap = NewGraphBuilder.edgeMap
    /\ graph = NewGraphBuilder.graph
    /\ last = NewCall
    /\ instances = EmptyMap
    /\ report = [Metrics |-> [key \in DOMAIN initMetricDefinitions |->
                                 InitialMetric(initMetricDefinitions[key])]]

\* one turn of `for _, raw := range rawMetrics`
MergeRaw ==
    /\ report.Metrics["Self-Loop"].Count
           + report.Metrics["Manual/Unlogged Stage"].Count < MaxMerged
    /\ \E raw \in RawOccurrences :
           report' = [Metrics |-> Aggregate(report.Metrics, <<raw>>, 1)]
    /\ last' = Called("merge")
    /\ UNCHANGED <<sessionMap, nodeMap, edgeMap, graph, instances, uploads>>

NextMerge == MergeRaw

SpecMerge == InitMerge /\ [][NextMerge]_vars

----------------------------------------------------------------------------
(* The handlers of the one GraphBuilder as net/http runs them: each        *)
(* request in a goroutine of its own, no lock in the handlers, the service *)
(* or the builder. A BuildGraph call advances one callback at a time, and  *)
(* the other handlers run whole between two of its steps.                  *)

\* the records of the logs uploaded concurrently
ConcurrentRecords == {<<"c1", T1, "A">>, <<"c1", T2, "B">>} \cup Malformed

\* UploadFile reaches BuildGraph, which starts the reader on the log
EnterBuild(h) ==
    /\ uploads[h].next = 0
    /\ \E n \in 1..MaxRecords :
           \E records \in [1..n -> ConcurrentRecords] :
               uploads' = [uploads EXCEPT ![h] = [records |-> records, next |-> 1]]
    /\ UNCHANGED <<sessionMap, nodeMap, edgeMap, graph, last, instances, report>>

\* the reader hands the next record to the callback; on an error BuildGraph
\* returns it without finalizing
BuildStep(h) ==
    /\ uploads[h].next \in 1..Len(uploads[h].records)
    /\ \E r \in {BuildGraphCallback(sessionMap, uploads[h].records[uploads[h].next])} :
           /\ sessionMap' = r.sessionMap
           /\ IF r.err = NoError
              THEN /\ uploads' = [uploads EXCEPT ![h].next = @ + 1]
                   /\ UNCHANGED <<last, instances, report>>
              ELSE /\ uploads' = [uploads EXCEPT ![h].next = -1]
                   /\ last' = [Called("build") EXCEPT
                                   !.records = uploads[h].records,
                                   !.err = r.err,
                                   !.built = "failed"]
                   /\ report' = NoReport
                   /\ instances' = EmptyMap
    /\ UNCHANGED <<nodeMap, edgeMap, graph>>

\* the reader is through: BuildGraph finalizes the graph and returns
FinishBuild(h) ==
    /\ uploads[h].next = Len(uploads[h].records) + 1
    /\ \E order1, order2 \in Perms(DOMAIN sessionMap) :
           SetBuilder(finalizeGraph(gbState, order1, order2))
    /\ uploads' = [uploads EXCEPT ![h].next = -1]
    /\ last' = [Called("build") EXCEPT !.records = uploads[h].records,
                                       !.built = "ok"]
    /\ report' = NoReport
    /\ instances' = EmptyMap

NextConcurrent ==
    \/ \E h \in Handlers : EnterBuild(h)
    \/ \E h \in Handlers : BuildStep(h)
    \/ \E h \in Handlers : FinishBuild(h)
    \/ ClearGraph
    \/ ServeGraphData
    \/ GetMetricsReport

SpecConcurrent == Init /\ [][NextConcurrent]_vars

----------------------------------------------------------------------------
(* What the claims speak of                                                *)

CasesOf(records) == {records[i][1] : i \in DOMAIN records}

BuildOk == last.op = "build" /\ last.err = NoError

\* a build that succeeded on a fresh or cleared builder
FreshBuildOk == BuildOk /\ last.cleared

\* the builders clear() followed by build(records) can leave
AfterClearAndBuild(records) ==
    {BuildGraph(NewGraphBuilder, records, o1, o2).gb :
        o1 \in Perms(CasesOf(records)), o2 \in Perms(CasesOf(records))}

IsMalformed(record) ==
    Len(record) < 3 \/ ~(\E i \in DOMAIN formats : formats[i] = record[2].layout)

ErrorOf(record) ==
    IF Len(record) < 3 THEN Errorf("columns", record)
    ELSE Errorf("time format", <<record[2]>>)

EventOf(record) ==
    [ID |-> record[1], SessionID |-> record[1], Timestamp |-> record[2].t,
     Desc |-> record[3]]

\* the events of the records of one case, in the order of the log
RECURSIVE EventsOfCase(_, _)
EventsOfCase(records, c) ==
    IF records = <<>> THEN <<>>
    ELSE (IF records[1][1] = c THEN <<EventOf(records[1])>> ELSE <<>>)
             \o EventsOfCase(Tail(records), c)

\* the sessions held once the well-formed records have been added to sm
Ingested(sm, records) ==
    [c \in DOMAIN sm \cup CasesOf(records) |->
        [Events |-> (IF c \in DOMAIN sm THEN sm[c].Events ELSE <<>>)
                        \o EventsOfCase(records, c)]]

LabelsOf(records) == {records[i][3] : i \in DOMAIN records}

\* the records of the log that carry the label
LabelOccurrences(records, l) == {i \in DOMAIN records : records[i][3] = l}

\* the places <<c, i>> where event i of case c has label from and event i + 1
\* has label to
PairOccurrences(records, from, to) ==
    UNION {{<<c, i>> : i \in {j \in 1..(Len(EventsOfCase(records, c)) - 1) :
                                 /\ EventsOfCase(records, c)[j].Desc = from
                                 /\ EventsOfCase(records, c)[j + 1].Desc = to}} :
              c \in CasesOf(records)}

\* next.timestamp - prev.timestamp, summed over the places
RECURSIVE SumElapsed(_, _)
SumElapsed(records, places) ==
    IF places = {} THEN F(0)
    ELSE LET p == CHOOSE x \in places : TRUE
             E == EventsOfCase(records, p[1])
         IN FAdd(F(E[p[2] + 1].Timestamp - E[p[2]].Timestamp),
                 SumElapsed(records, places \ {p}))

\* the consecutive pairs of a session and its two boundary pairs
PairsOf(E) ==
    {<<E[i].Desc, E[i + 1].Desc>> : i \in 1..(Len(E) - 1)}
        \cup {<<"start", E[1].Desc>>, <<E[Len(E)].Desc, "end">>}

\* the edges the graph lists, as (from, to)
ListedEdges == {<<edgeMap[k].From, edgeMap[k].To>> : k \in BagToSet(graph.Edges)}

\* the ids of the nodes the graph lists
ListedNodeIDs == {p.key : p \in BagToSet(graph.Nodes)}

ValuesOf(m) == [i \in DOMAIN m.Occurrences |-> m.Occurrences[i].Value]

WastedOf(m) == [i \in DOMAIN m.Occurrences |-> m.Occurrences[i].WastedDurationSeconds]

\* the cases with a record whose outcome is "error"
ErrorSessions(records) ==
    {c \in CasesOf(records) :
        \E i \in DOMAIN records :
            /\ records[i][1] = c
            /\ Len(records[i]) >= 4
            /\ records[i][4] = "error"}

\* the occurrences of a metric scoped to the whole log: one with the value
\* when the condition holds, none otherwise
AllScoped(emitted, value) ==
    IF emitted
    THEN <<[InstanceID |-> "ALL", Value |-> value, WastedDurationSeconds |-> F(0)]>>
    ELSE <<>>

\* the labels of an instance's events, in order
LabelPath(instance) ==
    [i \in DOMAIN instance.Events |-> instance.Events[i].Description]

OccurrencesOf(key) == report.Metrics[key].Occurrences

\* the consecutive pairs (id, i) whose duration is collected for the stage
\* statistics: both timestamps set, the later one not before the earlier
CollectedPairs(insts) ==
    UNION {{<<id, i>> : i \in {j \in 1..(Len(insts[id].Events) - 1) :
                                 /\ insts[id].Events[j].Timestamp # 0
                                 /\ insts[id].Events[j + 1].Timestamp # 0
                                 /\ insts[id].Events[j + 1].Timestamp
                                       >= insts[id].Events[j].Timestamp}} :
           id \in DOMAIN insts}

\* last timestamp minus first timestamp of the sessions with two or more
\* events, in the order the sessions are visited
WholeDurations(insts, order) ==
    ForInstances(insts, order,
        LAMBDA instance :
            IF Len(instance.Events) >= 2
            THEN <<F(instance.Events[Len(instance.Events)].Timestamp
                       - instance.Events[1].Timestamp)>>
            ELSE <<>>)

\* the instance trend occurrences expected of sessions visited in an order
ExpectedInstanceTrend(insts, order) ==
    LET ds == WholeDurations(insts, order)
        slope == calculateLinearRegression(ds).slope
    IN AllScoped(Len(ds) >= 2 /\ FGt(slope, F(0)), slope)

\* how many times each value is taken by a sequence or a function
BagOf(f) ==
    [x \in {f[k] : k \in DOMAIN f} |-> Cardinality({k \in DOMAIN f : f[k] = x})]

\* the positions (id, i) of the sessions, from their lo-th event on, whose
\* event i carries the label of the event `back` places before it
RepeatsAt(insts, lo, back) ==
    UNION {{<<id, i>> : i \in {j \in lo..Len(insts[id].Events) :
                                 insts[id].Events[j].Description
                                     = insts[id].Events[j - back].Description}} :
           id \in DOMAIN insts}

\* the occurrence of a looping detector at position p = (id, i): value 1.0,
\* wasted time from the event `from` places back to the one `to` places back
LoopOccurrence(insts, p, from, to) ==
    [InstanceID |-> p[1], Value |-> F(1),
     WastedDurationSeconds |-> F(insts[p[1]].Events[p[2] - to].Timestamp
                                   - insts[p[1]].Events[p[2] - from].Timestamp)]

NonDecreasing(instance) ==
    \A i \in 2..Len(instance.Events) :
        instance.Events[i].Timestamp >= instance.Events[i - 1].Timestamp

\* the (from, to) pairs of consecutive events of the sessions of a log
RealPairs(records) ==
    UNION {{<<EventsOfCase(records, c)[i].Desc, EventsOfCase(records, c)[i + 1].Desc>> :
               i \in 1..(Len(EventsOfCase(records, c)) - 1)} : c \in CasesOf(records)}

\* the (from, to) pairs of the boundary transitions of the sessions of a log
BoundaryPairs(records) ==
    UNION {{<<"start", EventsOfCase(records, c)[1].Desc>>,
            <<EventsOfCase(records, c)[Len(EventsOfCase(records, c))].Desc, "end">>} :
           c \in CasesOf(records)}

\* the stage trend occurrences expected of the durations collected from
\* the sessions visited in an order: the slope over them as collected
ExpectedStageTrend(insts, order) ==
    LET slope == calculateLinearRegression(
                     ForInstances(insts, order, stageDurationsOf)).slope
    IN AllScoped(AngleOver5Degrees(slope), slope)

\* timestamp[i+1] - timestamp[i] of the consecutive pair p = (id, i)
Elapsed(insts, p) ==
    insts[p[1]].Events[p[2] + 1].Timestamp - insts[p[1]].Events[p[2]].Timestamp

\* every consecutive pair (id, i) of every session
AllPairs(insts) ==
    UNION {{<<id, i>> : i \in 1..(Len(insts[id].Events) - 1)} : id \in DOMAIN insts}

\* the element at index k, from 0, of the collected durations once sorted
SortedAt(insts, k) ==
    CHOOSE v \in {Elapsed(insts, p) : p \in CollectedPairs(insts)} :
        /\ Cardinality({p \in CollectedPairs(insts) : Elapsed(insts, p) < v}) <= k
        /\ k < Cardinality({p \in CollectedPairs(insts) : Elapsed(insts, p) <= v})

\* the pairs whose elapsed time is over Q3 + 1.5*(Q3 - Q1), with Q1 and Q3
\* at the indices round((n-1)*0.25) and round((n-1)*0.75)
LongPairs(insts) ==
    LET n == Cardinality(CollectedPairs(insts))
        q1 == SortedAt(insts, ((n - 1) + 2) \div 4)
        q3 == SortedAt(insts, (3 * (n - 1) + 2) \div 4)
    IN {p \in AllPairs(insts) : 2 * Elapsed(insts, p) > 2 * q3 + 3 * (q3 - q1)}

\* the positions of a session's events that carry the label
PositionsOf(instance, l) ==
    {j \in 1..Len(instance.Events) : instance.Events[j].Description = l}

\* the (id, label) with the label on two or more events of the session
Reworked(insts) ==
    {q \in UNION {{<<id, insts[id].Events[j].Description>> :
                       j \in 1..Len(insts[id].Events)} : id \in DOMAIN insts} :
        Cardinality(PositionsOf(insts[q[1]], q[2])) > 1}

\* the elapsed time of the pairs, summed
RECURSIVE SumOfElapsed(_, _)
SumOfElapsed(insts, pairs) ==
    IF pairs = {} THEN 0
    ELSE LET p == CHOOSE x \in pairs : TRUE
         IN Elapsed(insts, p) + SumOfElapsed(insts, pairs \ {p})

\* the Rework occurrence of label q[2] in session q[1]: every position of
\* the label but the last, each measured to the event right after it
ReworkOccurrence(insts, q) ==
    LET positions == PositionsOf(insts[q[1]], q[2])
        lastOne == CHOOSE j \in positions : \A k \in positions : k <= j
    IN [InstanceID |-> q[1], Value |-> F(Cardinality(positions) - 1),
        WastedDurationSeconds |->
            F(SumOfElapsed(insts, {<<q[1], j>> : j \in positions \ {lastOne}}))]

\* last timestamp minus first timestamp of a session
TotalDuration(instance) ==
    instance.Events[Len(instance.Events)].Timestamp - instance.Events[1].Timestamp

\* the consecutive pairs that take more than 80% of the total duration of
\* their session, in the sessions whose total duration is positive
DominantPairs(insts) ==
    {p \in AllPairs(insts) :
        /\ TotalDuration(insts[p[1]]) > 0
        /\ 100 * Elapsed(insts, p) > 80 * TotalDuration(insts[p[1]])}

\* elapsed / total * 100 of a dominant pair, rounded to a tenth
PercentOfTotal(insts, p) ==
    Frac((2000 * Elapsed(insts, p) + TotalDuration(insts[p[1]]))
             \div (2 * TotalDuration(insts[p[1]])), 10)

\* the sessions of two or more events whose first label contains the start
\* marker and whose last label contains the end marker, in any case
Completed(insts) ==
    {id \in DOMAIN insts :
        /\ Len(insts[id].Events) >= 2
        /\ Contains(ToLower(insts[id].Events[1].Description), "nachalo")
        /\ Contains(ToLower(insts[id].Events[Len(insts[id].Events)].Description),
                    "konets")}

\* the node a member of graph.Nodes points to
NodeOf(p) == IF p.inMap THEN nodeMap[p.key] ELSE p.obj[1]

\* the counts of the edges with the keys, summed
RECURSIVE SumOfCounts(_)
SumOfCounts(keys) ==
    IF keys = {} THEN 0
    ELSE LET k == CHOOSE x \in keys : TRUE
         IN edgeMap[k].Count + SumOfCounts(keys \ {k})

\* count, total_value and exceeded of a metric
Aggregates(m) == <<m.Count, m.TotalValue, m.Exceeded>>

ZeroMetric(m) ==
    /\ m.Count = 0
    /\ m.Occurrences = <<>>
    /\ m.TotalValue = F(0)
    /\ m.TotalWastedDuration = F(0)
    /\ m.Exceeded = FALSE

----------------------------------------------------------------------------
(* C1. A successful build leaves the builder as clear() followed by the    *)
(* same build would: nothing of the builds before it remains and nothing   *)
(* is counted twice.                                                       *)

C1_BuildReplacesState == BuildOk => gbState \in AfterClearAndBuild(last.records)

(* C2. After a successful build, the report covers every session held:     *)
(* total_process_instances is the number of case ids, total_events the     *)
(* number of records, and every occurrence not scoped to ALL carries the   *)
(* case id of a session held.                                              *)

C2_ReportCoversSessions ==
    (last.op = "metrics" /\ last.built = "ok") =>
        /\ report.TotalProcessInstances = Cardinality(DOMAIN sessionMap)
        /\ report.TotalEvents = HeldEvents(sessionMap)
        /\ \A key \in DOMAIN report.Metrics :
               \A i \in DOMAIN report.Metrics[key].Occurrences :
                   report.Metrics[key].Occurrences[i].InstanceID
                       \in DOMAIN sessionMap \cup {"ALL"}

(* C3. Every metric of every report Analyze returns has count equal to the  *)
(* length of its occurrence list, total_value equal to the sum of the      *)
(* occurrences' values rounded to one decimal, and total_wasted_duration   *)
(* equal to the sum of their wasted durations.                             *)

C3_AggregatesMatchOccurrences ==
    report # NoReport =>
        \A key \in DOMAIN report.Metrics :
            LET m == report.Metrics[key]
            IN /\ m.Count = Len(m.Occurrences)
               /\ m.TotalValue = Round1(FSum(ValuesOf(m), 1))
               /\ m.TotalWastedDuration = FSum(WastedOf(m), 1)

\* a report of two instances with a metric of several occurrences, a metric
\* whose occurrence is under its threshold, and a total the rounding changed
C3_Witness ==
    /\ last.op = "analyze"
    /\ Cardinality(DOMAIN instances) = 2
    /\ \E key \in DOMAIN report.Metrics :
           /\ Len(report.Metrics[key].Occurrences) >= 2
           /\ FGt(report.Metrics[key].TotalWastedDuration, F(0))
    /\ \E key \in DOMAIN report.Metrics :
           /\ report.Metrics[key].Occurrences # <<>>
           /\ ~report.Metrics[key].Exceeded
    /\ \E key \in DOMAIN report.Metrics :
           report.Metrics[key].TotalValue # FSum(ValuesOf(report.Metrics[key]), 1)

(* C4. Every report holds exactly one metric per catalog entry (12), a     *)
(* metric without occurrences has zero aggregates, and the report made     *)
(* after a clear and a build of an empty log has zero instances, zero      *)
(* events and twelve zero metrics.                                         *)

C4_EmptyLogReport ==
    report # NoReport =>
        /\ DOMAIN report.Metrics = DOMAIN initMetricDefinitions
        /\ Cardinality(DOMAIN report.Metrics) = 12
        /\ \A key \in DOMAIN report.Metrics :
               /\ report.Metrics[key].Definition = initMetricDefinitions[key]
               /\ report.Metrics[key].Occurrences = <<>> => ZeroMetric(report.Metrics[key])
        /\ (last.built = "ok" /\ sessionMap = EmptyMap) =>
               /\ report.TotalProcessInstances = 0
               /\ report.TotalEvents = 0
               /\ \A key \in DOMAIN report.Metrics : ZeroMetric(report.Metrics[key])

\* the report asked for after a history that held events, a clear and a
\* build of an empty log
C4_Witness ==
    /\ last.op = "metrics"
    /\ last.built = "ok"
    /\ last.wiped
    /\ sessionMap = EmptyMap
    /\ report # NoReport

(* C5. After a successful build on a cleared builder the nodes are the      *)
(* labels of the log, each listed once in the graph, and the count of a    *)
(* label's node is the number of records carrying the label, whatever the  *)
(* order the sessions are processed in and whatever their length or the    *)
(* order of their timestamps.                                              *)

C5_NodeCountsEvents ==
    FreshBuildOk =>
        /\ DOMAIN nodeMap = LabelsOf(last.records)
        /\ \A l \in DOMAIN nodeMap :
               /\ nodeMap[l].Count = Cardinality(LabelOccurrences(last.records, l))
               /\ CopiesIn(MapNodePtr(l), graph.Nodes) = 1

\* a build of a session of one event and a session whose timestamps go
\* backwards, with a label in both sessions and twice in one of them
C5_Witness ==
    /\ FreshBuildOk
    /\ \E c, d \in DOMAIN sessionMap :
           /\ Len(sessionMap[c].Events) = 1
           /\ Len(sessionMap[d].Events) = 2
           /\ sessionMap[d].Events[2].Timestamp < sessionMap[d].Events[1].Timestamp
           /\ sessionMap[d].Events[1].Desc = sessionMap[c].Events[1].Desc
           /\ sessionMap[d].Events[2].Desc = sessionMap[c].Events[1].Desc
           /\ nodeMap[sessionMap[c].Events[1].Desc].Count = 3

(* C6. After a successful build on a cleared builder, the count of every   *)
(* non-boundary edge is the number of places where its from label is       *)
(* directly followed by its to label in a session, and count times         *)
(* avg_duration is the sum of the elapsed times at exactly those places.   *)

C6_EdgeCountsAndMeans ==
    FreshBuildOk =>
        \A k \in DOMAIN edgeMap :
            edgeMap[k].Style # "dashed" =>
                LET e == edgeMap[k]
                    places == PairOccurrences(last.records, e.From, e.To)
                IN /\ e.Count = Cardinality(places)
                   /\ FMul(F(e.Count), e.AvgDuration) = SumElapsed(last.records, places)

(* C7. After a successful build of a single case on a cleared builder the  *)
(* graph lists one node per distinct label plus start and end, and one     *)
(* edge per distinct consecutive pair plus start -> first and last -> end; *)
(* for the events A, B, A these are the nodes A, B, start, end and the     *)
(* edges start -> A, A -> B, B -> A, A -> end, each with count 1.          *)

C7_SingleSessionGraph ==
    (FreshBuildOk /\ Cardinality(CasesOf(last.records)) = 1) =>
        LET E == EventsOfCase(last.records, last.records[1][1])
        IN /\ ListedNodeIDs = LabelsOf(last.records) \cup {"start", "end"}
           /\ BagCardinality(graph.Nodes) = Cardinality(LabelsOf(last.records)) + 2
           /\ ListedEdges = PairsOf(E)
           /\ BagCardinality(graph.Edges) = Cardinality(PairsOf(E))
           /\ [i \in DOMAIN E |-> E[i].Desc] = <<"A", "B", "A">> =>
                  /\ ListedNodeIDs = {"A", "B", "start", "end"}
                  /\ ListedEdges = {<<"start", "A">>, <<"A", "B">>, <<"B", "A">>,
                                    <<"A", "end">>}
                  /\ \A k \in DOMAIN edgeMap : edgeMap[k].Count = 1

(* C8. A build that meets a malformed record returns the error of the      *)
(* first such record, adds the events of the records before it and of no   *)
(* record after it, and leaves the graph, the nodes and the edges as they  *)
(* were: it does not finalize.                                             *)

C8_FailedBuildKeepsGraph ==
    [][(last'.op = "build" /\ last'.err # NoError) =>
          \E k \in DOMAIN last'.records :
              /\ IsMalformed(last'.records[k])
              /\ \A j \in 1..(k - 1) : ~IsMalformed(last'.records[j])
              /\ last'.err = ErrorOf(last'.records[k])
              /\ sessionMap' = Ingested(sessionMap, SubSeq(last'.records, 1, k - 1))
              /\ graph' = graph
              /\ nodeMap' = nodeMap
              /\ edgeMap' = edgeMap]_vars

\* a build failed at its second record, on a builder whose graph was built
C8_Witness ==
    /\ last.op = "build"
    /\ last.err # NoError
    /\ Len(last.records) >= 2
    /\ ~IsMalformed(last.records[1])
    /\ graph.Edges # EmptyBag

(* C9. After a successful build on a cleared builder there is a session    *)
(* for exactly the case ids of the log, and each session holds the records *)
(* of its case in the order of the log: none dropped, duplicated, merged   *)
(* or moved.                                                               *)

C9_SessionsKeepArrivalOrder ==
    FreshBuildOk => sessionMap = Ingested(EmptyMap, last.records)

\* a build of two interleaved cases, one of them with timestamps that go
\* backwards
C9_Witness ==
    /\ FreshBuildOk
    /\ Len(last.records) = 3
    /\ last.records[1][1] = last.records[3][1]
    /\ last.records[2][1] # last.records[1][1]
    /\ parseTime(last.records[3][2]).t < parseTime(last.records[1][2]).t
    /\ Cardinality(DOMAIN sessionMap) = 2

(* C10. Right after clear() the sessions, the nodes, the edges and the     *)
(* graph's lists are all empty, whatever builds came before, and the       *)
(* report asked for next has zero instances and zero events.               *)

C10_ClearResetsAll ==
    /\ last.op = "clear" =>
           /\ sessionMap = EmptyMap
           /\ nodeMap = EmptyMap
           /\ edgeMap = EmptyMap
           /\ graph.Nodes = EmptyBag
           /\ graph.Edges = EmptyBag
    /\ (last.op = "metrics" /\ last.built = "cleared") =>
           /\ report.TotalProcessInstances = 0
           /\ report.TotalEvents = 0

\* the report asked for right after a clear that discarded events
C10_Witness ==
    /\ last.op = "metrics"
    /\ last.built = "cleared"
    /\ last.wiped
    /\ report # NoReport

(* C11. The report asked for after a successful build on a cleared builder *)
(* has one High Error Rate occurrence, scoped to ALL and valued the number *)
(* of sessions with an "error" outcome, iff those sessions outnumber the   *)
(* others, and none otherwise.                                             *)

C11_ErrorRateFromOutcomes ==
    [][(FreshBuildOk /\ last'.op = "metrics") =>
          LET errors == Cardinality(ErrorSessions(last.records))
              others == Cardinality(CasesOf(last.records)) - errors
          IN report'.Metrics["High Error Rate"].Occurrences
                 = AllScoped(errors > others, F(errors))]_vars

(* C12. With U distinct label paths among T sessions, High Process         *)
(* Variability has one occurrence, scoped to ALL and valued U/T*100        *)
(* rounded to one decimal, iff U/T*100 > 80, and none otherwise (none when *)
(* T = 0); 5 sessions with 2 distinct paths give no occurrence and         *)
(* exceeded = false.                                                       *)

C12_VariabilityRate ==
    report # NoReport =>
        LET t == Cardinality(DOMAIN instances)
            u == Cardinality({LabelPath(instances[id]) : id \in DOMAIN instances})
        IN /\ OccurrencesOf("High Process Variability")
                  = AllScoped(t > 0 /\ 100 * u > 80 * t,
                              Round1(FDiv(F(100 * u), F(IF t = 0 THEN 1 ELSE t))))
           /\ (t = 5 /\ u = 2) =>
                  /\ OccurrencesOf("High Process Variability") = <<>>
                  /\ ~report.Metrics["High Process Variability"].Exceeded

\* the report of six sessions with five distinct paths: 83.3 percent
C12_Witness ==
    /\ last.op = "analyze"
    /\ Cardinality(DOMAIN instances) = 6
    /\ Cardinality({LabelPath(instances[id]) : id \in DOMAIN instances}) = 5
    /\ OccurrencesOf("High Process Variability")
           = AllScoped(TRUE, Frac(833, 10))
    /\ report.Metrics["High Process Variability"].Exceeded

(* C13. When fewer than 4 consecutive-pair durations are collected over    *)
(* the whole log, Anomalously Long Stage has no occurrence and the trend   *)
(* detectors still run: the Increasing Process Instance Duration Trend     *)
(* occurrence is emitted when at least 2 session durations exist and their *)
(* slope is positive.                                                      *)

C13_SmallSampleStillTrends ==
    [][\A ord \in AnalyzeOrders(instances) :
          (/\ report' = Analyze(instances, ord)
           /\ Cardinality(CollectedPairs(instances)) < 4) =>
              /\ report'.Metrics["Anomalously Long Stage"].Occurrences = <<>>
              /\ report'.Metrics["Increasing Process Instance Duration Trend"]
                     .Occurrences = ExpectedInstanceTrend(instances, ord.inst)]_vars

(* C14. Self-Loop has exactly one occurrence, of value 1.0, for every      *)
(* adjacent pair (i-1, i) of equal labels of every session, and no other;  *)
(* a session with two equal consecutive labels gives a count of at least   *)
(* 1; each wasted duration is timestamp[i] - timestamp[i-1], non-negative  *)
(* when the session's timestamps are non-decreasing.                       *)

C14_SelfLoops ==
    report # NoReport =>
        /\ BagOf(OccurrencesOf("Self-Loop"))
               = BagOf([p \in RepeatsAt(instances, 2, 1) |->
                           LoopOccurrence(instances, p, 1, 0)])
        /\ RepeatsAt(instances, 2, 1) # {} => report.Metrics["Self-Loop"].Count >= 1
        /\ \A k \in DOMAIN OccurrencesOf("Self-Loop") :
               LET o == OccurrencesOf("Self-Loop")[k]
               IN NonDecreasing(instances[o.InstanceID])
                      => ~FLt(o.WastedDurationSeconds, F(0))

\* the report of the single session A, B, B whose second B comes later
C14_Witness ==
    /\ last.op = "analyze"
    /\ DOMAIN instances = {"c1"}
    /\ LabelPath(instances["c1"]) = <<"A", "B", "B">>
    /\ Len(OccurrencesOf("Self-Loop")) = 1
    /\ FGt(OccurrencesOf("Self-Loop")[1].WastedDurationSeconds, F(0))

(* C15. After a successful build on a cleared builder there is one edge    *)
(* record per distinct (from, to) pair of consecutive events and one per   *)
(* distinct boundary transition, whatever the label strings: distinct      *)
(* pairs never share a record and a boundary edge is never the record of   *)
(* an edge between two activities.                                         *)

C15_EdgeIdentity ==
    FreshBuildOk =>
        /\ Cardinality(DOMAIN edgeMap)
               = Cardinality(RealPairs(last.records))
                     + Cardinality(BoundaryPairs(last.records))
        /\ \A p \in RealPairs(last.records) :
               \E k \in DOMAIN edgeMap : /\ edgeMap[k].From = p[1]
                                         /\ edgeMap[k].To = p[2]
                                         /\ edgeMap[k].Style # "dashed"
        /\ \A p \in BoundaryPairs(last.records) :
               \E k \in DOMAIN edgeMap : /\ edgeMap[k].From = p[1]
                                         /\ edgeMap[k].To = p[2]
                                         /\ edgeMap[k].Style = "dashed"

(* C16. Increasing Stage Duration Trend has one occurrence, scoped to ALL  *)
(* and valued the least-squares slope of the consecutive-pair durations in *)
(* the order they were collected, iff the angle of that slope exceeds 5    *)
(* degrees, and none otherwise, for every number of durations; a single    *)
(* session of four or more strictly decreasing stage durations has none.   *)

C16_StageTrendInCollectedOrder ==
    [][\A ord \in AnalyzeOrders(instances) :
          report' = Analyze(instances, ord) =>
              report'.Metrics["Increasing Stage Duration Trend"].Occurrences
                  = ExpectedStageTrend(instances, ord.stage)]_vars

(* C17. Increasing Process Instance Duration Trend has exactly one         *)
(* occurrence, scoped to ALL and valued the slope, iff at least two        *)
(* sessions have two or more events and the least-squares slope of their   *)
(* whole-session durations is positive, also when no consecutive-pair      *)
(* duration was collected.                                                 *)

C17_InstanceTrend ==
    [][\A ord \in AnalyzeOrders(instances) :
          report' = Analyze(instances, ord) =>
              report'.Metrics["Increasing Process Instance Duration Trend"]
                  .Occurrences = ExpectedInstanceTrend(instances, ord.inst)]_vars

(* C18. With four or more collected durations, Anomalously Long Stage has  *)
(* one occurrence, valued the pair's elapsed seconds and carrying its case *)
(* id, for exactly the consecutive pairs whose elapsed time is strictly    *)
(* over Q3 + 1.5*(Q3 - Q1), Q1 and Q3 being the sorted durations at the    *)
(* indices round((n-1)*0.25) and round((n-1)*0.75); a pair whose later     *)
(* timestamp is before the earlier one never has an occurrence.            *)

C18_LongStages ==
    (report # NoReport /\ Cardinality(CollectedPairs(instances)) >= 4) =>
        /\ BagOf(OccurrencesOf("Anomalously Long Stage"))
               = BagOf([p \in LongPairs(instances) |->
                           [InstanceID |-> p[1],
                            Value |-> F(Elapsed(instances, p)),
                            WastedDurationSeconds |-> F(0)]])
        /\ \A k \in DOMAIN OccurrencesOf("Anomalously Long Stage") :
               ~FLt(OccurrencesOf("Anomalously Long Stage")[k].Value, F(0))

\* the report of the session with stage durations 9, 5, 3, 1: Q1 = 3,
\* Q3 = 5, threshold 8, and the stage of 9 seconds is the one occurrence
C18_Witness ==
    /\ last.op = "analyze"
    /\ Cardinality(CollectedPairs(instances)) = 4
    /\ OccurrencesOf("Anomalously Long Stage")
           = <<[InstanceID |-> "c1", Value |-> F(9),
                WastedDurationSeconds |-> F(0)]>>

(* C19. Ping-Pong has exactly one occurrence, of value 1.0, for every      *)
(* index i >= 3 (counting from 0) of every session with label[i] =         *)
(* label[i-2] and label[i-1] = label[i-3], and no other; its wasted        *)
(* duration is timestamp[i-1] - timestamp[i-3], not the span from i-3 to i.*)

C19_PingPongs ==
    report # NoReport =>
        BagOf(OccurrencesOf("Ping-Pong"))
            = BagOf([p \in RepeatsAt(instances, 4, 2)
                               \cap {<<q[1], q[2] + 1>> :
                                        q \in RepeatsAt(instances, 3, 2)} |->
                        LoopOccurrence(instances, p, 3, 1)])

\* the report of the single session A, B, A, B at seconds 1, 2, 12, 13: the
\* wasted time is 12 - 1, the window spans 13 - 1
C19_Witness ==
    /\ last.op = "analyze"
    /\ DOMAIN instances = {"c1"}
    /\ LabelPath(instances["c1"]) = <<"A", "B", "A", "B">>
    /\ instances["c1"].Events[4].Timestamp = 13
    /\ OccurrencesOf("Ping-Pong")
           = <<[InstanceID |-> "c1", Value |-> F(1),
                WastedDurationSeconds |-> F(11)]>>

(* C20. Return to Previous Stage has exactly one occurrence, of value 1.0  *)
(* and wasted duration timestamp[i] - timestamp[i-2], for every index      *)
(* i >= 2 (counting from 0) of every session with label[i] = label[i-2],   *)
(* and no other; the single session A, B, A gives it count 1 and Self-Loop *)
(* count 0.                                                                *)

C20_ReturnsToPrevious ==
    report # NoReport =>
        /\ BagOf(OccurrencesOf("Return to Previous Stage"))
               = BagOf([p \in RepeatsAt(instances, 3, 2) |->
                           LoopOccurrence(instances, p, 2, 0)])
        /\ (/\ DOMAIN instances = {"c1"}
            /\ LabelPath(instances["c1"]) = <<"A", "B", "A">>) =>
               /\ report.Metrics["Return to Previous Stage"].Count = 1
               /\ report.Metrics["Self-Loop"].Count = 0

\* the report of the single session A, B, A at seconds 1, 2, 12
C20_Witness ==
    /\ last.op = "analyze"
    /\ DOMAIN instances = {"c1"}
    /\ LabelPath(instances["c1"]) = <<"A", "B", "A">>
    /\ instances["c1"].Events[3].Timestamp = 12
    /\ report.Metrics["Return to Previous Stage"].Count = 1
    /\ report.Metrics["Self-Loop"].Count = 0
    /\ OccurrencesOf("Return to Previous Stage")[1].WastedDurationSeconds = F(11)

(* C21. Rework has exactly one occurrence for each label that occurs k > 1 *)
(* times in a session, with value k - 1 and wasted duration the sum, over  *)
(* every occurrence of the label but its last, of the elapsed time from    *)
(* that event to the event right after it; a label occurring once has none.*)

C21_Rework ==
    report # NoReport =>
        BagOf(OccurrencesOf("Rework"))
            = BagOf([q \in Reworked(instances) |-> ReworkOccurrence(instances, q)])

\* the report of the single session A, B, A at seconds 1, 2, 12: A occurs
\* twice, the stage after its first occurrence took 1 second
C21_Witness ==
    /\ last.op = "analyze"
    /\ DOMAIN instances = {"c1"}
    /\ LabelPath(instances["c1"]) = <<"A", "B", "A">>
    /\ instances["c1"].Events[3].Timestamp = 12
    /\ OccurrencesOf("Rework")
           = <<[InstanceID |-> "c1", Value |-> F(1),
                WastedDurationSeconds |-> F(1)]>>

(* C22. Manual/Unlogged Stage has one occurrence, valued the percentage    *)
(* rounded to one decimal, for exactly the consecutive pairs whose elapsed *)
(* time is strictly over 80% of the total duration of their session, in    *)
(* sessions of 2 or more events with a total duration > 0; a session whose *)
(* total duration is zero or negative has no occurrence, and the report is *)
(* still produced.                                                         *)

C22_ManualStages ==
    last.op = "analyze" =>
        /\ report # NoReport
        /\ BagOf(OccurrencesOf("Manual/Unlogged Stage"))
               = BagOf([p \in DominantPairs(instances) |->
                           [InstanceID |-> p[1],
                            Value |-> PercentOfTotal(instances, p),
                            WastedDurationSeconds |-> F(0)]])
        /\ \A k \in DOMAIN OccurrencesOf("Manual/Unlogged Stage") :
               TotalDuration(instances[OccurrencesOf("Manual/Unlogged Stage")[k]
                                           .InstanceID]) > 0

\* the report of two sessions: one at seconds 1, 2, 12, whose second stage
\* takes 90.9% of its 11 seconds, and one at seconds 4, 3, whose only stage
\* is 100% of a total of -1 second
C22_Witness ==
    /\ last.op = "analyze"
    /\ DOMAIN instances = {"c1", "c2"}
    /\ Len(instances["c1"].Events) = 3
    /\ TotalDuration(instances["c1"]) = 11
    /\ TotalDuration(instances["c2"]) = -1
    /\ OccurrencesOf("Manual/Unlogged Stage")
           = <<[InstanceID |-> "c1", Value |-> Frac(909, 10),
                WastedDurationSeconds |-> F(0)]>>

(* C23. A session is completed iff it has 2 or more events, its first      *)
(* label contains the start marker and its last label the end marker, in   *)
(* any case; with T sessions in all (those of fewer than 2 events too) and *)
(* C completed, Low Process Completion Rate has exactly one occurrence,    *)
(* scoped to ALL and valued C/T*100 rounded to one decimal, iff C < T, and *)
(* none when T = 0 or C = T.                                               *)

C23_CompletionRate ==
    report # NoReport =>
        LET t == Cardinality(DOMAIN instances)
            c == Cardinality(Completed(instances))
        IN OccurrencesOf("Low Process Completion Rate")
               = AllScoped(t > 0 /\ c < t,
                           Frac((2000 * c + t) \div (2 * (IF t = 0 THEN 1 ELSE t)), 10))

\* the report of three sessions, two of them completed, one of a single
\* event that carries both markers: 66.7 percent
C23_Witness ==
    /\ last.op = "analyze"
    /\ Cardinality(DOMAIN instances) = 3
    /\ Cardinality(Completed(instances)) = 2
    /\ \E id \in DOMAIN instances : Len(instances[id].Events) = 1
    /\ OccurrencesOf("Low Process Completion Rate")
           = AllScoped(TRUE, Frac(667, 10))

(* C24. The exceeded flag of every metric is true iff at least one of its  *)
(* occurrences has a value strictly over the threshold of the metric's     *)
(* definition, at every turn of the merge: an occurrence at or under the   *)
(* threshold merged later does not reset it, and it is false for a metric  *)
(* without occurrences.                                                    *)

C24_ExceededIffOverThreshold ==
    report # NoReport =>
        \A key \in DOMAIN report.Metrics :
            report.Metrics[key].Exceeded
                <=> \E k \in DOMAIN OccurrencesOf(key) :
                        FGt(OccurrencesOf(key)[k].Value,
                            report.Metrics[key].Definition.Threshold)

\* an occurrence of 90.9 over the threshold of 80, then one at 80
C24_Witness ==
    /\ last.op = "merge"
    /\ ValuesOf(report.Metrics["Manual/Unlogged Stage"]) = <<Frac(909, 10), F(80)>>
    /\ report.Metrics["Manual/Unlogged Stage"].Exceeded
    /\ ~report.Metrics["Self-Loop"].Exceeded

(* C25. most_frequent_paths holds at most 5 entries by non-increasing      *)
(* count, one entry per distinct label sequence among the non-empty        *)
(* sessions (the 5 first when there are more): two sessions are counted    *)
(* under one entry iff their label sequences are equal element by element, *)
(* whatever the label strings, and the count of an entry is the number of  *)
(* sessions with its sequence.                                             *)

C25_MostFrequentPaths ==
    report # NoReport =>
        LET paths == report.MostFrequentPaths
            sequences == {LabelPath(instances[id]) :
                              id \in {x \in DOMAIN instances :
                                         Len(instances[x].Events) > 0}}
        IN /\ Len(paths) = IF Cardinality(sequences) > 5 THEN 5
                           ELSE Cardinality(sequences)
           /\ \A k \in 2..Len(paths) : paths[k - 1].Count >= paths[k].Count
           /\ \A k \in DOMAIN paths :
                  /\ paths[k].Path \in sequences
                  /\ paths[k].Count
                         = Cardinality({id \in DOMAIN instances :
                                           LabelPath(instances[id]) = paths[k].Path})
           /\ \A j, k \in DOMAIN paths : j # k => paths[j].Path # paths[k].Path

(* C26. After a successful build, whatever builds and clears came before,  *)
(* the start node and the end node both count the sessions held, the       *)
(* counts of the boundary edges out of start sum to the start node's count *)
(* and those of the boundary edges into end to the end node's count, and   *)
(* the graph lists at most one node per id and one edge per (from, to).    *)

C26_BoundaryCounts ==
    BuildOk =>
        LET n == Cardinality(DOMAIN sessionMap)
        IN /\ \A p \in BagToSet(graph.Nodes) :
                  NodeOf(p).ID \in {"start", "end"} => NodeOf(p).Count = n
           /\ SumOfCounts({k \in DOMAIN edgeMap : /\ edgeMap[k].From = "start"
                                                  /\ edgeMap[k].Style = "dashed"}) = n
           /\ SumOfCounts({k \in DOMAIN edgeMap : /\ edgeMap[k].To = "end"
                                                  /\ edgeMap[k].Style = "dashed"}) = n
           /\ BagCardinality(graph.Nodes)
                  = Cardinality({NodeOf(p).ID : p \in BagToSet(graph.Nodes)})
           /\ BagCardinality(graph.Edges) = Cardinality(ListedEdges)

(* C27. A build that fails leaves the session mapping as it was before     *)
(* that build, so that no event of a record accepted before the failing    *)
(* one shows in a later report or graph.                                   *)

C27_FailedBuildKeepsSessions ==
    [][(last'.op = "build" /\ last'.err # NoError) => sessionMap' = sessionMap]_vars

(* C28. The handlers of the shared builder exclude one another: from the   *)
(* moment a build is in flight until it returns, no clear, no step of      *)
(* another build and no reader of the graph or of the metrics runs, so     *)
(* every step that a handler other than the build takes leaves the         *)
(* builder, the last result and the report as they were.                   *)

C28_HandlersExclusive ==
    [][\A h \in Handlers :
          (uploads[h].next >= 1 /\ uploads'[h] = uploads[h]) =>
              UNCHANGED <<sessionMap, nodeMap, edgeMap, graph, last, instances,
                          report>>]_vars

(* C29. For a fixed session mapping, Analyze gives every metric the same   *)
(* count, total_value and exceeded flag whatever the order in which the    *)
(* sessions are ranged over: the report returned agrees, in these three    *)
(* fields of every metric, with the report of one fixed order, and so with *)
(* the report of every other order.                                        *)

C29_OrderIndependent ==
    [][last'.op = "analyze" =>
          LET fixed == Analyze(instances, CHOOSE ord \in AnalyzeOrders(instances) : TRUE)
          IN \A key \in DOMAIN report'.Metrics :
                 Aggregates(report'.Metrics[key]) = Aggregates(fixed.Metrics[key])]_vars

(* C30. The regression helper returns (0, 0) for an empty list, and for    *)
(* every non-empty list that collectDurationMetrics hands to it, a list of *)
(* one element included, the zero denominator n*sum(x^2) - (sum x)^2 is    *)
(* guarded: the slope it returns is finite, and no occurrence of a trend   *)
(* carries an undefined slope.                                             *)

\* the lists collectDurationMetrics passes to calculateLinearRegression when
\* it visits the sessions in one of the orders: the stage durations (sorted
\* when there are four or more) and the whole-session durations; none when
\* no stage duration was collected
RegressionInputs(insts) ==
    UNION {LET collected == ForInstances(insts, ord.stage, stageDurationsOf)
           IN IF collected = <<>> THEN {}
              ELSE {IF Len(collected) >= 4 THEN SortFloat64s(collected) ELSE collected,
                    WholeDurations(insts, ord.inst)} :
           ord \in AnalyzeOrders(insts)}

C30_RegressionGuarded ==
    /\ calculateLinearRegression(<<>>) = [slope |-> F(0), intercept |-> F(0)]
    /\ last.op = "analyze" =>
           /\ \A data \in RegressionInputs(instances) :
                  IsFinite(calculateLinearRegression(data).slope)
           /\ \A key \in {"Increasing Stage Duration Trend",
                            "Increasing Process Instance Duration Trend"} :
                  \A i \in DOMAIN OccurrencesOf(key) :
                      IsFinite(OccurrencesOf(key)[i].Value)

====
